---- MODULE Spec2Model ----
(***************************************************************************)
(* Model of the KiCad GAL stroke-font engine (common/gal/stroke_font.cpp), *)
(* the GAL transform stack it draws through, and the PCB painter that      *)
(* calls both (pcbnew/pcb_painter.cpp).                                    *)
(*                                                                         *)
(* Numbers.  The code computes in double.  The model computes exactly, in  *)
(* fixed point: every real quantity q is held as the integer q * Unit.     *)
(* Unit is a common multiple of every denominator the code introduces      *)
(* (1/21 font scale, 1/8 italic tilt, 1.22 = 61/50, 1.3 = 13/10, 1.5 = 3/2,*)
(* halves), so that for whole-numbered glyph sizes and line widths every   *)
(* product and quotient below is exact.  Floating-point rounding is not    *)
(* modelled.  Angles are whole quarter turns.                              *)
(***************************************************************************)
EXTENDS Integers, Sequences, FiniteSets

VARIABLES
    m_glyphs,               \* STROKE_FONT::m_glyphs
    m_glyphBoundingBoxes,   \* STROKE_FONT::m_glyphBoundingBoxes
    m_pcbSettings,          \* PCB_PAINTER::m_pcbSettings: outline or filled mode per item kind
    gal,                    \* the drawing context (GAL) the font and painter draw on
    item,                   \* the entity being drawn (text, position, attributes)
    last                    \* the operation performed last, with what it returned

vars == <<m_glyphs, m_glyphBoundingBoxes, m_pcbSettings, gal, item, last>>

----------------------------------------------------------------------------
(* Fixed-point arithmetic *)

Unit == 21 * 8 * 50

Real(n) == n * Unit

\* a * b of two fixed-point numbers (split so that no partial product leaves
\* the 32-bit range)
Mul(a, b) ==
    (a \div Unit) * b + (a % Unit) * (b \div Unit) + ((a % Unit) * (b % Unit)) \div Unit

Half(a) == a \div 2

Max(a, b) == IF a >= b THEN a ELSE b

Min(a, b) == IF a <= b THEN a ELSE b

Abs(a) == IF a >= 0 THEN a ELSE -a

\* C++ integer division: truncation toward zero
IntDiv(a, b) == IF a >= 0 THEN a \div b ELSE -((-a) \div b)

\* KiROUND: the nearest integer, halves away from zero
KiROUND(v) ==
    IF v >= 0 THEN (v + Half(Unit)) \div Unit
              ELSE -((Half(Unit) - v) \div Unit)

----------------------------------------------------------------------------
(* Program constants (stroke_font.cpp:35-39) *)

INTERLINE_PITCH_RATIO == (3 * Unit) \div 2

OVERBAR_POSITION_FACTOR == (122 * Unit) \div 100

BOLD_FACTOR == (13 * Unit) \div 10

STROKE_FONT_SCALE == Unit \div 21

ITALIC_TILT == Unit \div 8

FONT_OFFSET == -10

\* character codes
CH_SPACE == 32

CH_QUESTION == 63

CH_TILDE == 126

CH_NEWLINE == 10

CH_R == 82

----------------------------------------------------------------------------
(* The drawing context: transform, transform stack, attributes *)

Identity == [xx |-> 1, xy |-> 0, yx |-> 0, yy |-> 1, tx |-> 0, ty |-> 0]

\* the point p of the local frame, in the frame the transform maps to
Apply(m, p) ==
    << m.xx * p[1] + m.xy * p[2] + m.tx,
       m.yx * p[1] + m.yy * p[2] + m.ty >>

\* rotation by q quarter turns
Cos4(q) == CASE q % 4 = 0 -> 1 [] q % 4 = 1 -> 0 [] q % 4 = 2 -> -1 [] OTHER -> 0

Sin4(q) == CASE q % 4 = 0 -> 0 [] q % 4 = 1 -> 1 [] q % 4 = 2 -> 0 [] OTHER -> -1

Translate(g, v) ==
    [g EXCEPT !.transform =
        [@ EXCEPT !.tx = @ + g.transform.xx * v[1] + g.transform.xy * v[2],
                  !.ty = @ + g.transform.yx * v[1] + g.transform.yy * v[2]]]

Rotate(g, q) ==
    LET m == g.transform
        c == Cos4(q)
        s == Sin4(q)
    IN [g EXCEPT !.transform =
            [m EXCEPT !.xx = m.xx * c + m.xy * s,
                      !.xy = m.xy * c - m.xx * s,
                      !.yx = m.yx * c + m.yy * s,
                      !.yy = m.yy * c - m.yx * s]]

\* what Save keeps: the transform and the drawing attributes
Saved(g) ==
    [transform |-> g.transform, lineWidth |-> g.lineWidth,
     isStroke |-> g.isStroke, isFill |-> g.isFill]

Save(g) ==
    [g EXCEPT !.stack = Append(@, Saved(g)), !.nSave = @ + 1]

\* Restore on an empty stack is the consistency error: it is recorded, and the
\* state is left as it is.
Restore(g) ==
    IF g.stack = << >>
    THEN [g EXCEPT !.underflow = TRUE, !.nRestore = @ + 1]
    ELSE LET top == g.stack[Len(g.stack)]
         IN [g EXCEPT !.transform = top.transform,
                      !.lineWidth = top.lineWidth,
                      !.isStroke = top.isStroke,
                      !.isFill = top.isFill,
                      !.stack = SubSeq(g.stack, 1, Len(g.stack) - 1),
                      !.nRestore = @ + 1]

SetLineWidth(g, w) == [g EXCEPT !.lineWidth = w]

SetIsStroke(g, b) == [g EXCEPT !.isStroke = b]

SetIsFill(g, b) == [g EXCEPT !.isFill = b]

\* a primitive rasterized: what was called, with its points as they land
\* after the current transform, and its scalar argument (a radius) if it has
\* one
Rasterize(g, op, pts, arg) ==
    [g EXCEPT !.calls = Append(@,
        [op |-> op,
         pts |-> [k \in 1..Len(pts) |-> Apply(g.transform, pts[k])],
         arg |-> arg])]

\* a primitive captured by the group being recorded (the one BeginGroup added
\* last), as issued
Capture(g, op, pts, arg) ==
    [g EXCEPT !.displayListsGroup[Len(g.displayListsGroup)].list =
                  Append(@, [op |-> op, pts |-> pts, arg |-> arg])]

\* a drawing primitive: captured while a group is recorded, rasterized
\* otherwise
Emit(g, op, pts, arg) ==
    IF g.isGroupStarted THEN Capture(g, op, pts, arg)
    ELSE Rasterize(g, op, pts, arg)

DrawLine(g, a, b) == Emit(g, "DrawLine", <<a, b>>, 0)

DrawPolyline(g, pts) == Emit(g, "DrawPolyline", pts, 0)

DrawPolygon(g, pts) == Emit(g, "DrawPolygon", pts, 0)

DrawCircle(g, c, r) == Emit(g, "DrawCircle", <<c>>, r)

DrawArc(g, c, r) == Emit(g, "DrawArc", <<c>>, r)

DrawRectangle(g, a, b) == Emit(g, "DrawRectangle", <<a, b>>, 0)

DrawCurve(g, pts) == Emit(g, "DrawCurve", pts, 0)

----------------------------------------------------------------------------
(* The retained groups of the drawing context.  displayListsGroup holds one
   entry per group that exists, in the order of their creation: the handle
   and the primitives recorded. *)

\* the handles of the groups that exist
LiveGroups(g) ==
    { g.displayListsGroup[k].id : k \in 1..Len(g.displayListsGroup) }

\* the primitives recorded in the group h
GroupList(g, h) ==
    LET k == CHOOSE n \in 1..Len(g.displayListsGroup) :
                 g.displayListsGroup[n].id = h
    IN g.displayListsGroup[k].list

\* a faulty variant: the group is created, but recording is not switched on
BeginGroup_NotStarted(g, h) ==
    [g EXCEPT !.displayListsGroup = Append(@, [id |-> h, list |-> << >>])]

\* BeginGroup: a group with the handle h, which the backend has generated, is
\* created and recording starts; h is what BeginGroup returns
BeginGroup(g, h) ==
    [g EXCEPT !.isGroupStarted = TRUE,
              !.displayListsGroup = Append(@, [id |-> h, list |-> << >>])]

EndGroup(g) == [g EXCEPT !.isGroupStarted = FALSE]

\* the primitives of list from the k-th on, rasterized at the current transform
RECURSIVE Replay(_, _, _)
Replay(g, list, k) ==
    IF k > Len(list) THEN g
    ELSE Replay(Rasterize(g, list[k].op, list[k].pts, list[k].arg), list, k + 1)

\* DrawGroup: the recorded primitives are replayed; a handle of no group
\* draws nothing
DrawGroup(g, aGroupNumber) ==
    IF aGroupNumber \in LiveGroups(g)
    THEN Replay(g, GroupList(g, aGroupNumber), 1)
    ELSE g

\* a faulty variant: the handle is taken as a position in the list of groups
DeleteGroup_ByPosition(g, aGroupNumber) ==
    IF aGroupNumber \in 1..Len(g.displayListsGroup)
    THEN [g EXCEPT !.displayListsGroup =
             [k \in 1..(Len(@) - 1) |-> IF k < aGroupNumber THEN @[k] ELSE @[k + 1]]]
    ELSE g

\* DeleteGroup: the group with this handle is released; a handle of no group
\* changes nothing
DeleteGroup(g, aGroupNumber) ==
    [g EXCEPT !.displayListsGroup =
        SelectSeq(@, LAMBDA e : e.id # aGroupNumber)]

----------------------------------------------------------------------------
(* The cursor of the drawing context (opengl_gal.h: cursorSize, cursorShape,
   cursorSave, isDeleteSavedPixels, savedCursorPosition, DrawCursor).  The
   frame buffer is a square of FrameSize x FrameSize pixels <<x, y>>; the
   cursor is a cross in a square of CursorSize x CursorSize pixels around the
   cursor position. *)

\* the side of the frame buffer, in pixels
FrameSize == 4

\* cursorSize as given to initCursor, in pixels
CursorSize == 3

\* the colour of the cursor pixels; the scene has the colours 0 and 1
CursorColour == 2

FramePixels == (0..(FrameSize - 1)) \X (0..(FrameSize - 1))

\* the offsets of the pixels of the saved square
CursorOffsets == (0..(CursorSize - 1)) \X (0..(CursorSize - 1))

\* cursorShape: the offsets of the pixels of the cross
cursorShape ==
    { d \in CursorOffsets : d[1] = CursorSize \div 2 \/ d[2] = CursorSize \div 2 }

\* the pixel at offset d of the square around the position
CursorPixel(aCursorPosition, d) ==
    << aCursorPosition[1] - CursorSize \div 2 + d[1],
       aCursorPosition[2] - CursorSize \div 2 + d[2] >>

\* the pixels of the cross at the position
CursorPattern(aCursorPosition) ==
    { CursorPixel(aCursorPosition, d) : d \in cursorShape }

\* the pixels of the square around the position
CursorSquare(aCursorPosition) ==
    { CursorPixel(aCursorPosition, d) : d \in CursorOffsets }

\* the pixels saved in cursorSave are written back where they were read
restoreCursorPixels(g) ==
    [g EXCEPT !.frameBuffer =
                  [p \in FramePixels |->
                      IF p \in CursorSquare(g.savedCursorPosition)
                      THEN g.cursorSave[<< p[1] - g.savedCursorPosition[1] + CursorSize \div 2,
                                           p[2] - g.savedCursorPosition[2] + CursorSize \div 2 >>]
                      ELSE @[p]],
              !.calls = Append(@, [op |-> "RestorePixels", pts |-> << g.savedCursorPosition >>, arg |-> 0])]

\* the pixels of the square around the position are read into cursorSave
saveCursorPixels(g, aCursorPosition) ==
    [g EXCEPT !.cursorSave =
                  [d \in CursorOffsets |-> g.frameBuffer[CursorPixel(aCursorPosition, d)]],
              !.savedCursorPosition = aCursorPosition,
              !.isDeleteSavedPixels = TRUE,
              !.calls = Append(@, [op |-> "SavePixels", pts |-> << aCursorPosition >>, arg |-> 0])]

\* the cross is written into the frame buffer at the position
drawCursorShape(g, aCursorPosition) ==
    [g EXCEPT !.frameBuffer =
                  [p \in FramePixels |->
                      IF p \in CursorPattern(aCursorPosition) THEN CursorColour ELSE @[p]],
              !.calls = Append(@, [op |-> "DrawPixels", pts |-> << aCursorPosition >>, arg |-> 0])]

\* a faulty variant: the pixels under the new position are saved while the
\* cursor is still drawn at the previous one
DrawCursor_SaveFirst(g, aCursorPosition) ==
    drawCursorShape(
        IF g.isDeleteSavedPixels
        THEN [restoreCursorPixels(g) EXCEPT
                 !.cursorSave = saveCursorPixels(g, aCursorPosition).cursorSave,
                 !.savedCursorPosition = aCursorPosition,
                 !.calls = Append(@, [op |-> "SavePixels", pts |-> << aCursorPosition >>, arg |-> 0])]
        ELSE saveCursorPixels(g, aCursorPosition),
        aCursorPosition)

\* DrawCursor: the pixels saved by the previous call, if any, are restored,
\* the pixels under the new position are saved, and the cross is drawn
DrawCursor(g, aCursorPosition) ==
    drawCursorShape(
        saveCursorPixels(IF g.isDeleteSavedPixels THEN restoreCursorPixels(g) ELSE g,
                         aCursorPosition),
        aCursorPosition)

----------------------------------------------------------------------------
(* The glyph table given to LoadNewStrokeFont: one string per glyph, here as
   the sequence of its character codes.  Entry j is the glyph of the
   character with code ' ' + j. *)

\* "JZ"
GLYPH_SPACE == << 74, 90 >>

\* "KYLKRGXK RRTRW"
GLYPH_QUESTION == << 75, 89, 76, 75, 82, 71, 88, 75, 32, 82, 82, 84, 82, 87 >>

\* "I[MUWU RK[RFY["
GLYPH_A == << 73, 91, 77, 85, 87, 85, 32, 82, 75, 91, 82, 70, 89, 91 >>

\* "G\KFK[ RKFTHKP"
GLYPH_B == << 71, 92, 75, 70, 75, 91, 32, 82, 75, 70, 84, 72, 75, 80 >>

\* "H[XKRFLPR["
GLYPH_C == << 72, 91, 88, 75, 82, 70, 76, 80, 82, 91 >>

\* "F^IUOSUW[U"
GLYPH_TILDE == << 70, 94, 73, 85, 79, 83, 85, 87, 91, 85 >>

\* the first n glyph strings of the table
newstroke_font(n) ==
    [j \in 1..n |->
        CASE j - 1 = CH_QUESTION - CH_SPACE -> GLYPH_QUESTION
          [] j - 1 = 65 - CH_SPACE -> GLYPH_A
          [] j - 1 = 66 - CH_SPACE -> GLYPH_B
          [] j - 1 = 67 - CH_SPACE -> GLYPH_C
          [] j - 1 = CH_TILDE - CH_SPACE -> GLYPH_TILDE
          [] OTHER -> GLYPH_SPACE]

----------------------------------------------------------------------------
(* STROKE_FONT::LoadNewStrokeFont and computeBoundingBox *)

\* the character at index i of a NUL-terminated string
CharAt(s, i) == IF i < Len(s) THEN s[i + 1] ELSE 0

\* A glyph string is given by its characters, the NUL after them being
\* understood, or, with the memory it lies in, by its characters, the NUL and
\* the bytes that follow the NUL.  strlen is the index of the NUL.
strlen(s) ==
    IF \E k \in 1..Len(s) : s[k] = 0
    THEN (CHOOSE k \in 1..Len(s) : s[k] = 0 /\ \A j \in 1..(k - 1) : s[j] # 0) - 1
    ELSE Len(s)

\* the number of bytes that can be read from index 0 on; a read at a higher
\* index is a read of memory that is not there
Readable(s) == IF strlen(s) < Len(s) THEN Len(s) ELSE Len(s) + 1

\* BOX2D::Compute: the smallest box holding the points
BoxCompute(points) ==
    LET xs == {points[k][1] : k \in 1..Len(points)}
        ys == {points[k][2] : k \in 1..Len(points)}
        lo(S) == CHOOSE v \in S : \A w \in S : v <= w
        hi(S) == CHOOSE v \in S : \A w \in S : v >= w
    IN [pos |-> <<lo(xs), lo(ys)>>, end |-> <<hi(xs), hi(ys)>>]

\* all points of all strokes of a glyph, in order
RECURSIVE GlyphPoints(_)
GlyphPoints(glyph) ==
    IF glyph = << >> THEN << >>
    ELSE glyph[1] \o GlyphPoints(Tail(glyph))

\* a faulty variant: the two points of the advance lie at the height of the
\* first stroke point, not on the baseline
computeBoundingBox_NoBaseline(aGLYPH, aGLYPHBoundingX) ==
    LET pts == GlyphPoints(aGLYPH)
        y0 == IF pts = << >> THEN 0 ELSE pts[1][2]
        boundingPoints ==
            << <<aGLYPHBoundingX[1], y0>>, <<aGLYPHBoundingX[2], y0>> >> \o
            [k \in 1..Len(pts) |-> <<aGLYPHBoundingX[1], pts[k][2]>>]
    IN BoxCompute(boundingPoints)

computeBoundingBox(aGLYPH, aGLYPHBoundingX) ==
    LET pts == GlyphPoints(aGLYPH)
        boundingPoints ==
            << <<aGLYPHBoundingX[1], 0>>, <<aGLYPHBoundingX[2], 0>> >> \o
            [k \in 1..Len(pts) |-> <<aGLYPHBoundingX[1], pts[k][2]>>]
    IN BoxCompute(boundingPoints)

\* one pass of the while loop over the glyph string, from index i
RECURSIVE ParseGlyph(_, _, _)
ParseGlyph(s, i, st) ==
    IF i >= Readable(s) THEN [st EXCEPT !.read = i, !.fault = TRUE]
    ELSE IF CharAt(s, i) = 0 THEN [st EXCEPT !.read = i]
    ELSE IF i + 1 >= Readable(s) THEN [st EXCEPT !.read = i + 1, !.fault = TRUE]
    ELSE
        LET c0 == CharAt(s, i)
            c1 == CharAt(s, i + 1)
        IN  IF i < 2
            THEN LET glyphStartX == Mul(Real(c0 - CH_R), STROKE_FONT_SCALE)
                     glyphEndX == Mul(Real(c1 - CH_R), STROKE_FONT_SCALE)
                 IN ParseGlyph(s, i + 2,
                        [st EXCEPT !.glyphStartX = glyphStartX,
                                   !.glyphBoundingX = <<0, glyphEndX - glyphStartX>>,
                                   !.read = i + 1])
            ELSE IF c0 = CH_SPACE /\ c1 = CH_R
            THEN ParseGlyph(s, i + 2,
                     [st EXCEPT !.glyph = IF st.pointList # << >>
                                          THEN Append(@, st.pointList) ELSE @,
                                !.pointList = << >>,
                                !.read = i + 1])
            ELSE LET point ==
                        << Mul(Real(c0 - CH_R), STROKE_FONT_SCALE) - st.glyphStartX,
                           Mul(Real(c1 - CH_R + FONT_OFFSET), STROKE_FONT_SCALE) >>
                 IN ParseGlyph(s, i + 2,
                        [st EXCEPT !.pointList = Append(@, point),
                                   !.read = i + 1])

\* a faulty variant: what is left in the point list is stored as a stroke even
\* when it is empty
LoadGlyph_PushAlways(s) ==
    LET st == ParseGlyph(s, 0,
                  [glyphStartX |-> 0, glyphBoundingX |-> <<0, 0>>,
                   pointList |-> << >>, glyph |-> << >>,
                   read |-> -1, fault |-> FALSE])
        glyph == Append(st.glyph, st.pointList)
    IN [glyph |-> glyph, box |-> computeBoundingBox(glyph, st.glyphBoundingX),
        read |-> st.read, fault |-> st.fault]

\* the glyph and the bounding box stored for one glyph string
LoadGlyph(s) ==
    LET st == ParseGlyph(s, 0,
                  [glyphStartX |-> 0, glyphBoundingX |-> <<0, 0>>,
                   pointList |-> << >>, glyph |-> << >>,
                   read |-> -1, fault |-> FALSE])
        glyph == IF st.pointList # << >> THEN Append(st.glyph, st.pointList)
                 ELSE st.glyph
    IN [glyph |-> glyph, box |-> computeBoundingBox(glyph, st.glyphBoundingX),
        read |-> st.read, fault |-> st.fault]

\* the two tables after LoadNewStrokeFont( aNewStrokeFont, size )
LoadNewStrokeFont(aNewStrokeFont) ==
    [glyphs |-> [j \in 1..Len(aNewStrokeFont) |-> LoadGlyph(aNewStrokeFont[j]).glyph],
     boxes |-> [j \in 1..Len(aNewStrokeFont) |-> LoadGlyph(aNewStrokeFont[j]).box],
     read |-> [j \in 1..Len(aNewStrokeFont) |-> LoadGlyph(aNewStrokeFont[j]).read],
     fault |-> \E j \in 1..Len(aNewStrokeFont) : LoadGlyph(aNewStrokeFont[j]).fault]

----------------------------------------------------------------------------
(* STROKE_FONT: overbar position, line size *)

ComputeOverbarVerticalPosition(aGlyphHeight, aGlyphThickness) ==
    Mul(aGlyphHeight, OVERBAR_POSITION_FACTOR) + aGlyphThickness

computeOverbarVerticalPosition(g) ==
    ComputeOverbarVerticalPosition(g.glyphSize[2], g.lineWidth)

GetInterline(aGlyphHeight, aGlyphThickness) ==
    Mul(aGlyphHeight, INTERLINE_PITCH_RATIO) + aGlyphThickness

\* a faulty variant: the interline is cut to a whole number instead of rounded
getInterline_Truncated(g) == GetInterline(g.glyphSize[2], g.lineWidth) \div Unit

getInterline(g) == KiROUND(GetInterline(g.glyphSize[2], g.lineWidth))

\* linesCount: the number of lines of a text
linesCount(aText) ==
    1 + Cardinality({k \in 1..Len(aText) : aText[k] = CH_NEWLINE})

\* the index in the bounding-box table ComputeStringBoundaryLimits uses for ch
limitsGlyphIndex(ch, size) ==
    LET dd == ch - CH_SPACE
    IN IF dd >= size \/ dd < 0 THEN CH_QUESTION - CH_SPACE ELSE dd

\* the for loop of ComputeStringBoundaryLimits from position i (1-based);
\* st.x is result.x, st.used the table indices read so far
RECURSIVE limitsLoop(_, _, _, _, _, _)
limitsLoop(boxes, aText, i, st, aTopLimit, aBottomLimit) ==
    IF i > Len(aText) THEN st
    ELSE
        LET it == IF aText[i] = CH_TILDE THEN i + 1 ELSE i
        IN  IF it > Len(aText) THEN st
            ELSE
                LET dd == limitsGlyphIndex(aText[it], Len(boxes))
                    box == boxes[dd + 1]
                    ymax1 == IF aTopLimit
                             THEN Max(Max(st.ymax, box.pos[2]), box.end[2])
                             ELSE st.ymax
                    ymin1 == IF aBottomLimit
                             THEN Min(Min(st.ymin, box.pos[2]), box.end[2])
                             ELSE st.ymin
                IN limitsLoop(boxes, aText, it + 1,
                       [x |-> st.x + box.end[1], ymax |-> ymax1, ymin |-> ymin1,
                        used |-> Append(st.used, [ch |-> aText[it], dd |-> dd])],
                       aTopLimit, aBottomLimit)

\* a faulty variant: the italic tilt is left out
limitsWidth_NoTilt(g, sum, aGlyphSize, aGlyphThickness) ==
    Mul(sum, aGlyphSize[1]) + aGlyphThickness

\* result.x after the loop: scaled, thickness added, italic tilt added
limitsWidth(g, sum, aGlyphSize, aGlyphThickness) ==
    LET y == g.glyphSize[2]
        x1 == Mul(sum, aGlyphSize[1]) + aGlyphThickness
    IN IF g.italic THEN x1 + Mul(y, ITALIC_TILT) ELSE x1

ComputeStringBoundaryLimits(boxes, g, aText, aGlyphSize, aGlyphThickness, aTopLimit, aBottomLimit) ==
    LET st == limitsLoop(boxes, aText, 1,
                  [x |-> 0, ymax |-> 0, ymin |-> 0, used |-> << >>],
                  aTopLimit, aBottomLimit)
    IN [result |-> << limitsWidth(g, st.x, aGlyphSize, aGlyphThickness),
                      g.glyphSize[2] >>,
        top |-> IF aTopLimit THEN Mul(st.ymax, aGlyphSize[2]) ELSE 0,
        bottom |-> IF aBottomLimit THEN Mul(st.ymin, aGlyphSize[2]) ELSE 0,
        used |-> st.used]

computeTextLineSize(boxes, g, aText) ==
    ComputeStringBoundaryLimits(boxes, g, aText, g.glyphSize, g.lineWidth,
                                FALSE, FALSE).result

----------------------------------------------------------------------------
(* STROKE_FONT::drawSingleLineText *)

\* a faulty variant: the fallback is the first glyph of the table
drawGlyphIndex_FallbackFirst(ch, size) ==
    LET dd == ch - CH_SPACE
    IN IF dd >= size \/ dd < 0 THEN 0 ELSE dd

\* the index in the glyph tables drawSingleLineText uses for ch
drawGlyphIndex(ch, size) ==
    LET dd == ch - CH_SPACE
    IN IF dd >= size \/ dd < 0 THEN CH_QUESTION - CH_SPACE ELSE dd

\* a faulty variant: every '~' toggles, a doubled one too
toggleOverbar_Always(overbar, next) == ~overbar

\* a faulty variant: the overbar is only ever switched on
toggleOverbar_OnOnly(overbar, next) ==
    IF next # CH_TILDE THEN TRUE ELSE overbar

\* the overbar state after a '~' that is followed by the character next
toggleOverbar(overbar, next) ==
    IF next # CH_TILDE THEN ~overbar ELSE overbar

\* a faulty variant: mirroring does not exchange left and right
hJustifyShift_NoSwap(g, textSize) ==
    CASE g.hJustify = "CENTER" -> << -Half(textSize[1]), 0 >>
      [] g.hJustify = "RIGHT" -> << -textSize[1], 0 >>
      [] OTHER -> << 0, 0 >>

\* the translation for the horizontal justification
hJustifyShift(g, textSize) ==
    CASE g.hJustify = "CENTER" -> << -Half(textSize[1]), 0 >>
      [] g.hJustify = "RIGHT" ->
            IF ~g.mirrored THEN << -textSize[1], 0 >> ELSE << 0, 0 >>
      [] g.hJustify = "LEFT" ->
            IF g.mirrored THEN << -textSize[1], 0 >> ELSE << 0, 0 >>
      [] OTHER -> << 0, 0 >>

\* a faulty variant: mirrored text starts at the full text width
startOffset_FullWidth(g, textSize) ==
    IF g.mirrored THEN textSize[1] ELSE 0

\* xOffset before the first glyph
startOffset(g, textSize) ==
    IF g.mirrored THEN textSize[1] - g.lineWidth ELSE 0

\* glyphSize as the loop uses it: x negated for mirrored text
loopGlyphSize(g) ==
    IF g.mirrored THEN << -g.glyphSize[1], g.glyphSize[2] >> ELSE g.glyphSize

overbarItalicComp(g) ==
    LET c == Mul(computeOverbarVerticalPosition(g), ITALIC_TILT)
    IN IF g.mirrored THEN -c ELSE c

\* a faulty variant: the compensation is added for every glyph under the bar
overbarStartX_EveryGlyph(g, xOffset, last_had_overbar) ==
    xOffset + overbarItalicComp(g)

\* the start x of the overbar segment of a glyph
overbarStartX(g, xOffset, last_had_overbar) ==
    IF ~last_had_overbar THEN xOffset + overbarItalicComp(g) ELSE xOffset

\* the pen advance after a glyph
advance(glyphSize, box) == Mul(box.end[1], glyphSize[1])

\* a faulty variant: mirrored text is sheared like text that is not mirrored
pointPos_TiltOneWay(g, glyphSize, xOffset, pt) ==
    LET x == Mul(pt[1], glyphSize[1]) + xOffset
        y == Mul(pt[2], glyphSize[2])
    IN IF g.italic THEN << x - Mul(y, ITALIC_TILT), y >> ELSE << x, y >>

\* one glyph point, scaled, offset and sheared
pointPos(g, glyphSize, xOffset, pt) ==
    LET x == Mul(pt[1], glyphSize[1]) + xOffset
        y == Mul(pt[2], glyphSize[2])
    IN IF g.italic
       THEN IF g.mirrored THEN << x + Mul(y, ITALIC_TILT), y >>
                          ELSE << x - Mul(y, ITALIC_TILT), y >>
       ELSE << x, y >>

\* DrawPolyline of every stroke of the glyph, from stroke k on
RECURSIVE drawStrokes(_, _, _, _, _)
drawStrokes(g, glyph, k, glyphSize, xOffset) ==
    IF k > Len(glyph) THEN g
    ELSE drawStrokes(
             DrawPolyline(g, [n \in 1..Len(glyph[k]) |->
                                 pointPos(g, glyphSize, xOffset, glyph[k][n])]),
             glyph, k + 1, glyphSize, xOffset)

\* the for loop over the characters from position i (1-based).  st holds the
\* drawing context, overbar, last_had_overbar, xOffset, and the record of the
\* glyphs drawn: character, table index, overbar state, pen position.
RECURSIVE drawLoop(_, _, _, _, _)
drawLoop(glyphs, boxes, aText, i, st) ==
    IF i > Len(aText) THEN st
    ELSE
        LET tilde == aText[i] = CH_TILDE
            chIt == IF tilde THEN i + 1 ELSE i
        IN  IF chIt > Len(aText) THEN st
            ELSE
                LET overbar == IF tilde THEN toggleOverbar(st.overbar, aText[chIt])
                                        ELSE st.overbar
                    dd == drawGlyphIndex(aText[chIt], Len(boxes))
                    glyph == glyphs[dd + 1]
                    bbox == boxes[dd + 1]
                    glyphSize == loopGlyphSize(st.g)
                    y == -computeOverbarVerticalPosition(st.g)
                    g1 == IF overbar
                          THEN DrawLine(st.g,
                                   << overbarStartX(st.g, st.xOffset, st.last_had_overbar), y >>,
                                   << st.xOffset + advance(glyphSize, bbox), y >>)
                          ELSE st.g
                    g2 == drawStrokes(g1, glyph, 1, glyphSize, st.xOffset)
                IN drawLoop(glyphs, boxes, aText, chIt + 1,
                       [g |-> g2,
                        overbar |-> overbar,
                        last_had_overbar |-> overbar,
                        xOffset |-> st.xOffset + advance(glyphSize, bbox),
                        drawn |-> Append(st.drawn,
                            [ch |-> aText[chIt], pos |-> chIt, dd |-> dd,
                             overbar |-> overbar, xOffset |-> st.xOffset,
                             origin |-> Apply(st.g.transform, <<st.xOffset, 0>>)])])

\* the state the for loop starts in: context g after the justification
lineStart(g, textSize) ==
    [g |-> g, overbar |-> FALSE, last_had_overbar |-> FALSE,
     xOffset |-> startOffset(g, textSize), drawn |-> << >>]

\* after the loop (state st): Restore; what is returned and recorded
lineEnd(st, textSize) ==
    [g |-> Restore(st.g), drawn |-> st.drawn, xOffset |-> st.xOffset,
     textSize |-> textSize]

\* from the Save on, in the context g saved, with the text size computed
lineFromSave(glyphs, boxes, g, aText, textSize) ==
    lineEnd(drawLoop(glyphs, boxes, aText, 1,
                lineStart(Translate(g, hJustifyShift(g, textSize)), textSize)),
            textSize)

\* the whole function: the drawing context afterwards, and the glyphs drawn
drawSingleLineText(glyphs, boxes, g, aText) ==
    lineFromSave(glyphs, boxes,
                 Save(Translate(g, << Half(g.lineWidth), 0 >>)),
                 aText, computeTextLineSize(boxes, g, aText))

----------------------------------------------------------------------------
(* STROKE_FONT::Draw *)

\* the translation that aligns the first line, for one line of text
vJustifyShift(g) ==
    CASE g.vJustify = "TOP" -> << 0, g.glyphSize[2] >>
      [] g.vJustify = "CENTER" -> << 0, Half(g.glyphSize[2]) >>
      [] OTHER -> << 0, 0 >>

\* the further translation of the first line when there are several lines
\* (lineCount and lineHeight are of type int)
multilineShift(g, lineCount, lineHeight) ==
    CASE g.vJustify = "CENTER" ->
            << 0, Real(IntDiv(-(lineCount - 1) * lineHeight, 2)) >>
      [] g.vJustify = "BOTTOM" ->
            << 0, Real(-(lineCount - 1) * lineHeight) >>
      [] OTHER -> << 0, 0 >>

\* the translation from one line to the next
lineAdvance(lineHeight) == << 0, Real(lineHeight) >>

\* aText.find( '\n', begin ): the position (1-based) of the first line break
\* at or after begin, 0 if there is none
RECURSIVE find(_, _)
find(aText, begin) ==
    IF begin > Len(aText) THEN 0
    ELSE IF aText[begin] = CH_NEWLINE THEN begin
    ELSE find(aText, begin + 1)

\* what is recorded of a line drawn: its text, the transform and line width
\* in effect when drawSingleLineText was entered (context g), what it
\* returned (r), and the range of the primitives it issued
lineRecord(g, line, r) ==
    [text |-> line, at |-> g.transform, lineWidth |-> g.lineWidth,
     drawn |-> r.drawn, textSize |-> r.textSize, xOffset |-> r.xOffset,
     first |-> Len(g.calls) + 1, next |-> Len(r.g.calls) + 1]

\* the text of the line that starts at begin, given where its line break is
lineText(aText, begin, newlinePos) ==
    IF newlinePos = 0 THEN SubSeq(aText, begin, Len(aText))
    ELSE SubSeq(aText, begin, newlinePos - 1)

\* after a line is drawn: the translation to the next line
lineDone(st, line, r, lineHeight, last_line) ==
    [g |-> IF last_line THEN r.g ELSE Translate(r.g, lineAdvance(lineHeight)),
     lines |-> Append(st.lines, lineRecord(st.g, line, r))]

\* drawSingleLineText of one line
lineDraw(glyphs, boxes, st, line, lineHeight, last_line) ==
    lineDone(st, line, drawSingleLineText(glyphs, boxes, st.g, line),
             lineHeight, last_line)

\* the while loop and the last line; st.lines records the lines drawn
RECURSIVE drawLinesFrom(_, _, _, _, _, _, _)
drawLinesFrom(glyphs, boxes, aText, begin, newlinePos, lineHeight, st) ==
    IF newlinePos = 0
    THEN lineDraw(glyphs, boxes, st, lineText(aText, begin, 0), lineHeight, TRUE)
    ELSE drawLinesFrom(glyphs, boxes, aText, newlinePos + 1,
             find(aText, newlinePos + 1), lineHeight,
             lineDraw(glyphs, boxes, st, lineText(aText, begin, newlinePos),
                      lineHeight, FALSE))

drawLines(glyphs, boxes, aText, begin, lineHeight, st) ==
    drawLinesFrom(glyphs, boxes, aText, begin, find(aText, begin),
                  lineHeight, st)

\* a faulty variant: Draw returns without restoring the context
drawEnd_Missing(g) == g

\* the end of Draw: the context saved at its start is restored
drawEnd(g) == Restore(g)

\* Save, then the position and rotation of the text
drawBegin(g, aPosition, aRotationAngle) ==
    Rotate(Translate(Save(g), aPosition), -aRotationAngle)

\* the alignment of the first line, and of the lines as a block
drawAlign(g, lineCount, lineHeight) ==
    IF lineCount > 1
    THEN Translate(Translate(g, vJustifyShift(g)),
                   multilineShift(g, lineCount, lineHeight))
    ELSE Translate(g, vJustifyShift(g))

\* stroked, and with the line width of bold text
drawStyle(g) ==
    IF g.bold
    THEN SetLineWidth(SetIsStroke(g, TRUE), Mul(g.lineWidth, BOLD_FACTOR))
    ELSE SetIsStroke(g, TRUE)

\* after the lines are drawn (r): Restore
drawReturn(r) == [g |-> drawEnd(r.g), lines |-> r.lines]

\* from the Save and the placement on, in the context g they leave
drawPlaced(glyphs, boxes, g, aText, lineHeight) ==
    drawReturn(drawLines(glyphs, boxes, aText, 1, lineHeight,
                   [g |-> drawStyle(drawAlign(g, linesCount(aText), lineHeight)),
                    lines |-> << >>]))

Draw(glyphs, boxes, g, aText, aPosition, aRotationAngle) ==
    IF aText = << >> THEN [g |-> g, lines |-> << >>]
    ELSE drawPlaced(glyphs, boxes, drawBegin(g, aPosition, aRotationAngle),
                    aText, getInterline(g))

----------------------------------------------------------------------------
(* PCB_PAINTER.  Lengths of the items are whole numbers of internal units;
   colours, line caps and line joins do not bear on what is modelled and are
   left out. *)

MAX_FONT_SIZE == 1500000

\* a point of an item, as the VECTOR2D handed to the drawing context
Vec(p) == << Real(p[1]), Real(p[2]) >>

\* VECTOR2D::Angle() of a vector along an axis, in quarter turns
Angle4(v) ==
    IF v[2] = 0 THEN (IF v[1] >= 0 THEN 0 ELSE 2)
    ELSE IF v[2] > 0 THEN 1 ELSE 3

\* VECTOR2D::EuclideanNorm() of a vector along an axis
EuclideanNorm(v) == Abs(v[1]) + Abs(v[2])

\* m_stroke_font->Draw( aText, aPosition, aRotationAngle )
fontDraw(g, aText, aPosition, aRotationAngle) ==
    Draw(m_glyphs, m_glyphBoundingBoxes, g, aText, aPosition, aRotationAngle).g

\* m_stroke_font->LoadAttributes( aText ): glyph size, justification and style
\* of the text item become those of the drawing context
LoadAttributes(g, aText) ==
    [g EXCEPT !.glyphSize = aText.attr.glyphSize,
              !.hJustify = aText.attr.hJustify,
              !.vJustify = aText.attr.vJustify,
              !.bold = aText.attr.bold,
              !.italic = aText.attr.italic,
              !.mirrored = aText.attr.mirrored]

draw_TRACK(g, s, aTrack) ==
    LET start == Vec(aTrack.start)
        line == << aTrack.endp[1] - aTrack.start[1],
                   aTrack.endp[2] - aTrack.start[2] >>
        length == Real(EuclideanNorm(line))
        half == Real(IntDiv(aTrack.width, 2))
    IN IF s.m_sketchModeSelect.TRACKS_VISIBLE
       THEN LET g1 == SetIsStroke(SetIsFill(
                          SetLineWidth(g, s.m_outlineWidth), FALSE), TRUE)
                g2 == Rotate(Translate(Save(g1), start), Angle4(line))
                g3 == DrawLine(g2, <<0, half>>, <<length, half>>)
                g4 == DrawLine(g3, <<0, -half>>, <<length, -half>>)
                g5 == DrawArc(g4, <<0, 0>>, half)
                g6 == DrawArc(g5, <<length, 0>>, half)
            IN Restore(g6)
       ELSE LET g1 == SetLineWidth(SetIsStroke(SetIsFill(g, TRUE), FALSE),
                                   Real(aTrack.width))
            IN DrawLine(g1, start, Vec(aTrack.endp))

\* a faulty variant: on any layer that is not the pad's the hole is drawn
draw_SEGVIA_AnyLayer(g, s, aVia, aLayer) ==
    LET center == Vec(aVia.start)
        radius == IF aLayer = "VIAS_VISIBLE" THEN Half(Real(aVia.width))
                  ELSE Half(Real(aVia.drill))
    IN IF s.m_sketchModeSelect.VIAS_VISIBLE
       THEN DrawCircle(SetLineWidth(SetIsStroke(SetIsFill(g, FALSE), TRUE),
                                    s.m_outlineWidth), center, radius)
       ELSE DrawCircle(SetIsStroke(SetIsFill(g, TRUE), FALSE),
                       center, radius)

draw_SEGVIA(g, s, aVia, aLayer) ==
    IF aLayer \notin {"VIAS_VISIBLE", "VIA_HOLES_VISIBLE"} THEN g
    ELSE
        LET center == Vec(aVia.start)
            radius == IF aLayer = "VIAS_VISIBLE" THEN Half(Real(aVia.width))
                      ELSE Half(Real(aVia.drill))
        IN IF s.m_sketchModeSelect.VIAS_VISIBLE
           THEN DrawCircle(SetLineWidth(SetIsStroke(SetIsFill(g, FALSE), TRUE),
                                        s.m_outlineWidth), center, radius)
           ELSE DrawCircle(SetIsStroke(SetIsFill(g, TRUE), FALSE),
                           center, radius)

\* NORMALIZE_ANGLE_90, on an angle in quarter turns
RECURSIVE NORMALIZE_ANGLE_90(_)
NORMALIZE_ANGLE_90(q) ==
    IF q < -1 THEN NORMALIZE_ANGLE_90(q + 2)
    ELSE IF q > 1 THEN NORMALIZE_ANGLE_90(q - 2)
    ELSE q

\* the glyph size for the description of a pad of size aSize, and the quarter
\* turn taken off the orientation when the pad is higher than wide
\* the font size of a pad's description, with one board unit written as the
\* number `one': half the pad, each side limited, then the longer side cut
\* to the ratio 3 : 4
padFontSizeIn(aSize, one) ==
    LET x == Min(IntDiv(aSize[1], 2), MAX_FONT_SIZE)
        y == Min(IntDiv(aSize[2], 2), MAX_FONT_SIZE)
    IN IF x < y
       THEN [size |-> << x * one, (x * one * 4) \div 3 >>, turn |-> 1]
       ELSE [size |-> << (y * one * 3) \div 4, y * one >>, turn |-> 0]

padFontSize(aSize) == padFontSizeIn(aSize, Unit)

\* the glyph size handed to the stroke font: halved when there is a net name
\* to fit in as well
padGlyphSize(size, netname) ==
    IF netname # << >> THEN << Half(size[1]), Half(size[2]) >> ELSE size

\* a faulty variant: the description layer returns without restoring the context
padNetnameEnd_Missing(g) == g

\* the end of the description layer: Restore, then return
padNetnameEnd(g) == Restore(g)

\* the description layer of a pad: net name and pad name
padNetname(g, aPad, orientation) ==
    LET f == padFontSize(aPad.size)
        g1 == Rotate(Translate(Save(g), Vec(aPad.position)),
                     -(orientation - f.turn))
        g2 == [g1 EXCEPT !.hJustify = "CENTER", !.vJustify = "CENTER",
                         !.bold = FALSE, !.italic = FALSE, !.mirrored = FALSE]
        small == padGlyphSize(f.size, aPad.netname)
        g3 == IF aPad.netname # << >>
              THEN LET a == SetLineWidth([g2 EXCEPT !.glyphSize = small],
                                         small[2] \div 10)
                       b == fontDraw(a, aPad.netname, << 0, small[2] >>, 0)
                   IN Translate(b, << 0, -Half(small[2]) >>)
              ELSE SetLineWidth([g2 EXCEPT !.glyphSize = small],
                                small[2] \div 10)
    IN padNetnameEnd(fontDraw(g3, aPad.padname, << 0, 0 >>, 0))

\* the switch over the shape of a pad or of its hole
padShape(g, sketch, shape, size) ==
    CASE shape = "PAD_OVAL" ->
            IF size[2] >= size[1]
            THEN LET m == size[2] - size[1]
                     n == size[1]
                 IN IF sketch
                    THEN DrawLine(DrawLine(DrawArc(DrawArc(g,
                             <<0, -m>>, n), <<0, m>>, n),
                             <<-n, -m>>, <<-n, m>>), <<n, -m>>, <<n, m>>)
                    ELSE DrawRectangle(DrawCircle(DrawCircle(g,
                             <<0, -m>>, n), <<0, m>>, n),
                             <<-n, -m>>, <<n, m>>)
            ELSE LET m == size[1] - size[2]
                     n == size[2]
                 IN IF sketch
                    THEN DrawLine(DrawLine(DrawArc(DrawArc(g,
                             <<-m, 0>>, n), <<m, 0>>, n),
                             <<-m, -n>>, <<m, -n>>), <<-m, n>>, <<m, n>>)
                    ELSE DrawRectangle(DrawCircle(DrawCircle(g,
                             <<-m, 0>>, n), <<m, 0>>, n),
                             <<-m, -n>>, <<m, n>>)
      [] shape \in {"PAD_RECT", "PAD_TRAPEZOID"} ->
            DrawRectangle(g, << -size[1], -size[2] >>, size)
      [] shape = "PAD_CIRCLE" -> DrawCircle(g, <<0, 0>>, size[1])
      [] OTHER -> g

draw_D_PAD(g, s, aPad, aLayer) ==
    LET orientation == NORMALIZE_ANGLE_90(aPad.orientation)
        sketch == s.m_sketchModeSelect.PADS_VISIBLE
    IN IF aLayer = "NETNAME_VISIBLE" THEN padNetname(g, aPad, orientation)
       ELSE
        LET g1 == Rotate(Translate(Save(g), Vec(aPad.position)), -orientation)
            g2 == IF sketch
                  THEN SetLineWidth(SetIsStroke(SetIsFill(g1, FALSE), TRUE),
                                    s.m_outlineWidth)
                  ELSE SetIsStroke(SetIsFill(g1, TRUE), FALSE)
            hole == aLayer = "PAD_HOLES_VISIBLE"
            g3 == IF hole THEN g2 ELSE Translate(g2, Vec(aPad.offset))
            size == IF hole
                    THEN << Half(Real(aPad.drillSize[1])),
                            Half(Real(aPad.drillSize[2])) >>
                    ELSE << Half(Real(aPad.size[1])), Half(Real(aPad.size[2])) >>
            shape == IF hole THEN aPad.drillShape ELSE aPad.shape
        IN Restore(padShape(g3, sketch, shape, size))

draw_DRAWSEGMENT(g, aSegment) ==
    LET g1 == SetLineWidth(SetIsStroke(SetIsFill(g, FALSE), TRUE),
                           Real(aSegment.width))
    IN CASE aSegment.shape \in {"S_SEGMENT", "S_RECT"} ->
                DrawLine(g1, Vec(aSegment.start), Vec(aSegment.endp))
         [] aSegment.shape = "S_ARC" ->
                DrawArc(g1, Vec(aSegment.start), Real(aSegment.radius))
         [] aSegment.shape = "S_CIRCLE" ->
                DrawCircle(g1, Vec(aSegment.start), Real(aSegment.radius))
         [] aSegment.shape = "S_POLYGON" ->
                DrawPolygon(g1, [k \in 1..Len(aSegment.poly) |->
                                    Vec(aSegment.poly[k])])
         [] aSegment.shape = "S_CURVE" ->
                DrawCurve(g1, << Vec(aSegment.start), Vec(aSegment.poly[1]),
                                 Vec(aSegment.poly[2]), Vec(aSegment.endp) >>)
         [] OTHER -> g1

\* draw( TEXTE_PCB* ) and draw( TEXTE_MODULE*, aLayer ): the layer only
\* chooses the colour
draw_TEXTE(g, aText) ==
    fontDraw(LoadAttributes(SetLineWidth(g, Real(aText.thickness)), aText),
             aText.text, Vec(aText.position), aText.orientation)

\* the loop over the corners of the filled polygons, from corner k on: a
\* corner that ends a contour draws what was collected and is not collected
RECURSIVE zoneLoop(_, _, _, _)
zoneLoop(g, polyPoints, k, corners) ==
    IF k > Len(polyPoints) THEN g
    ELSE IF ~polyPoints[k].end_contour
         THEN zoneLoop(g, polyPoints, k + 1,
                       Append(corners, Vec(polyPoints[k].p)))
         ELSE zoneLoop(DrawPolyline(DrawPolygon(g, corners), corners),
                       polyPoints, k + 1, << >>)

draw_ZONE_CONTAINER(g, aContainer) ==
    LET g1 == SetLineWidth(SetIsStroke(SetIsFill(g, aContainer.filled), TRUE),
                           Half(Real(aContainer.bridge)))
    IN zoneLoop(g1, aContainer.polys, 1, << >>)

\* the seven lines of the arrow, from line k on
RECURSIVE dimensionLines(_, _, _)
dimensionLines(g, segs, k) ==
    IF k > Len(segs) THEN g
    ELSE dimensionLines(DrawLine(g, Vec(segs[k][1]), Vec(segs[k][2])),
                        segs, k + 1)

draw_DIMENSION(g, aDimension) ==
    LET g1 == SetLineWidth(SetIsStroke(SetIsFill(g, FALSE), TRUE),
                           Real(aDimension.width))
    IN draw_TEXTE(dimensionLines(g1, aDimension.segs, 1), aDimension.Text)

draw_PCB_TARGET(g, aTarget) ==
    LET radius == IF aTarget.shape THEN IntDiv(aTarget.size, 2)
                  ELSE IntDiv(aTarget.size, 3)
    IN DrawCircle(SetIsStroke(SetIsFill(g, TRUE), TRUE),
                  Vec(aTarget.position), Real(radius))

\* PCB_PAINTER::Draw( aItem, aLayer ): the drawing context afterwards and the
\* value returned
PCB_PAINTER_Draw(g, s, aItem, aLayer) ==
    CASE aItem.type \in {"PCB_ZONE_T", "PCB_TRACE_T"} ->
            [g |-> draw_TRACK(g, s, aItem), ret |-> TRUE]
      [] aItem.type = "PCB_VIA_T" ->
            [g |-> draw_SEGVIA(g, s, aItem, aLayer), ret |-> TRUE]
      [] aItem.type = "PCB_PAD_T" ->
            [g |-> draw_D_PAD(g, s, aItem, aLayer), ret |-> TRUE]
      [] aItem.type \in {"PCB_LINE_T", "PCB_MODULE_EDGE_T"} ->
            [g |-> draw_DRAWSEGMENT(g, aItem), ret |-> TRUE]
      [] aItem.type \in {"PCB_TEXT_T", "PCB_MODULE_TEXT_T"} ->
            [g |-> draw_TEXTE(g, aItem), ret |-> TRUE]
      [] aItem.type = "PCB_ZONE_AREA_T" ->
            [g |-> draw_ZONE_CONTAINER(g, aItem), ret |-> TRUE]
      [] aItem.type = "PCB_DIMENSION_T" ->
            [g |-> draw_DIMENSION(g, aItem), ret |-> TRUE]
      [] aItem.type = "PCB_TARGET_T" ->
            [g |-> draw_PCB_TARGET(g, aItem), ret |-> TRUE]
      [] OTHER -> [g |-> g, ret |-> FALSE]

----------------------------------------------------------------------------
(* PCB_PAINTER: the colour of a layer.  What is modelled of a colour is the
   table it is read from and the index it is read at. *)

\* the number of board layers: the size of m_layerColors, m_layerColorsHi and
\* m_layerColorsDark
LAYER_COUNT == 32

\* the place of an item kind in the tables of the item colours
ItemIndex(aItem) ==
    CASE aItem = "VIAS_VISIBLE" -> 0
      [] aItem = "PADS_VISIBLE" -> 1
      [] aItem = "VIA_HOLES_VISIBLE" -> 2
      [] aItem = "PAD_HOLES_VISIBLE" -> 3
      [] OTHER -> 4

\* the layer number of an item kind
ITEM_GAL_LAYER(aItem) == LAYER_COUNT + ItemIndex(aItem)

\* the number of the layer an item is drawn for: a board layer, or the layer
\* of an item kind
LayerNumber(aLayer) == IF aLayer = "COPPER" THEN 0 ELSE ITEM_GAL_LAYER(aLayer)

getItemColor(s, aItemType, aNetCode) ==
    IF s.m_highlightEnabled
    THEN IF aNetCode = s.m_highlightNetcode
         THEN [table |-> "m_itemColorsHi", index |-> aItemType]
         ELSE [table |-> "m_itemColorsDark", index |-> aItemType]
    ELSE [table |-> "m_itemColors", index |-> aItemType]

getLayerColor(s, aLayer, aNetCode) ==
    IF s.m_hiContrastEnabled /\ s.m_activeLayer # aLayer
    THEN [table |-> "m_hiContrastColor", index |-> 0]
    ELSE IF s.m_highlightEnabled
    THEN IF aNetCode = s.m_highlightNetcode
         THEN [table |-> "m_layerColorsHi", index |-> aLayer]
         ELSE [table |-> "m_layerColorsDark", index |-> aLayer]
    ELSE IF aLayer >= LAYER_COUNT
    THEN getItemColor(s, aLayer - LAYER_COUNT, aNetCode)
    ELSE [table |-> "m_layerColors", index |-> aLayer]

\* the colours read while the item (on the board layer aBoardLayer, of the net
\* aNetCode) is drawn for aLayer: none for a via drawn for a layer that is not
\* one of its two
colourReads(s, aItem, aBoardLayer, aNetCode, aLayer) ==
    CASE aItem.type \in {"PCB_ZONE_T", "PCB_TRACE_T"} ->
            << getLayerColor(s, aBoardLayer, aNetCode) >>
      [] aItem.type = "PCB_VIA_T" ->
            IF aLayer \in {"VIAS_VISIBLE", "VIA_HOLES_VISIBLE"}
            THEN << getLayerColor(s, LayerNumber(aLayer), aNetCode) >>
            ELSE << >>
      [] aItem.type = "PCB_PAD_T" ->
            << getLayerColor(s, LayerNumber(aLayer), aNetCode) >>
      [] OTHER -> << >>

----------------------------------------------------------------------------
(* VIEW_ITEM (include/view/view_item.h): the group ids an item has cached, one
   pair (layer, group id) per layer, kept in the array m_groups of
   m_groupsSize pairs *)

\* no VIEW
NULL == "NULL"

\* VIEW_ITEM::VIEW_ITEM(): no view, visible, no group
VIEW_ITEM ==
    [m_view |-> NULL, m_viewVisible |-> TRUE, m_groups |-> << >>,
     m_groupsSize |-> 0]

\* the positions in m_groups of the pairs of the layer
groupEntries(it, aLayer) ==
    { k \in 1..it.m_groupsSize : it.m_groups[k][1] = aLayer }

\* getGroup: the group id of the first pair of the layer, -1 without one
getGroup(it, aLayer) ==
    IF groupEntries(it, aLayer) = {} THEN -1
    ELSE LET k == CHOOSE n \in groupEntries(it, aLayer) :
                      \A j \in groupEntries(it, aLayer) : n <= j
         IN it.m_groups[k][2]

\* getAllGroups: the group ids of all pairs
getAllGroups(it) == [k \in 1..it.m_groupsSize |-> it.m_groups[k][2]]

\* a faulty variant: a pair is added without looking for one of the layer
setGroup_AlwaysAppend(it, aLayer, aGroup) ==
    [it EXCEPT !.m_groups = Append(@, << aLayer, aGroup >>),
               !.m_groupsSize = @ + 1]

\* setGroup: the pair of the layer gets the id; without one, a pair is added
setGroup(it, aLayer, aGroup) ==
    IF groupEntries(it, aLayer) # {}
    THEN [it EXCEPT !.m_groups =
             [k \in 1..Len(@) |-> IF @[k][1] = aLayer
                                  THEN << aLayer, aGroup >> ELSE @[k]]]
    ELSE [it EXCEPT !.m_groups = Append(@, << aLayer, aGroup >>),
                    !.m_groupsSize = @ + 1]

\* a faulty variant: the stored ids are left as they are
deleteGroups_Missing(it) == it

\* deleteGroups: all stored ids are removed
deleteGroups(it) == [it EXCEPT !.m_groups = << >>, !.m_groupsSize = 0]

storesGroups(it) == it.m_groupsSize > 0

\* the set of the group ids getAllGroups returns
storedIds(it) == { getAllGroups(it)[k] : k \in 1..it.m_groupsSize }

\* DeleteGroup for each of the ids, from the k-th on
RECURSIVE deleteEach(_, _, _)
deleteEach(g, ids, k) ==
    IF k > Len(ids) THEN g
    ELSE deleteEach(DeleteGroup(g, ids[k]), ids, k + 1)

\* the cache of an item invalidated: every group the item maps to is deleted
\* in the drawing context and the mapping is cleared
clearItemCache(g, it) ==
    [g |-> deleteEach(g, getAllGroups(it), 1), it |-> deleteGroups(it)]

\* ViewRelease: the item is taken out of its view, if it has one.  Whether
\* the view then releases the groups of the item in the drawing context is
\* not known (aReleases); the ids stored in the item are not touched.
ViewRelease(g, it, aReleases) ==
    IF it.m_view = NULL THEN [g |-> g, it |-> it]
    ELSE [g |-> IF aReleases THEN deleteEach(g, getAllGroups(it), 1) ELSE g,
          it |-> [it EXCEPT !.m_view = NULL]]

\* a faulty variant: the stored ids are kept when the item changes view
viewAssigned_KeepGroups(r, aView) ==
    [g |-> r.g, it |-> [r.it EXCEPT !.m_view = aView]]

\* viewAssign after ViewRelease has returned r: the view is stored and the
\* stored ids are removed
viewAssigned(r, aView) ==
    [g |-> r.g, it |-> deleteGroups([r.it EXCEPT !.m_view = aView])]

viewAssign(g, it, aView, aReleases) ==
    viewAssigned(ViewRelease(g, it, aReleases), aView)

----------------------------------------------------------------------------
(* Inputs *)

\* the longest text made of the characters of Alphabet
MaxTextLen == 2

\* the number of glyphs of the table loaded: ' ' up to '~'
FontSize == 95

\* 'A', '~', line break
Alphabet == {65, CH_TILDE, CH_NEWLINE}

RECURSIVE Strings(_)
Strings(n) ==
    IF n = 0 THEN {<< >>}
    ELSE LET shorter == Strings(n - 1)
         IN shorter \cup {Append(t, c) : t \in {u \in shorter : Len(u) = n - 1},
                                          c \in Alphabet}

\* the texts of the scenarios: "~~ABC", "ABC", "~ABC~", "~A~", "A\nB\nC",
\* "A\nB",
\* and texts with a character below ' ' (tab), above the table (code 200),
\* a literal tilde inside an overbar, and "~AA~A~A": two glyphs under an
\* overbar, one without, one under an overbar again
ScenarioTexts ==
    { <<126, 126, 65, 66, 67>>, <<65, 66, 67>>, <<126, 65, 66, 67, 126>>,
      <<126, 65, 126>>, <<65, 10, 66, 10, 67>>, <<65, 10, 66>>,
      <<9, 65>>, <<126, 200, 66>>, <<126, 65, 126, 126, 66, 126, 67>>,
      <<126, 65, 65, 126, 65, 126, 65>> }

Texts == Strings(MaxTextLen) \cup ScenarioTexts

SingleLine(t) == \A k \in 1..Len(t) : t[k] # CH_NEWLINE

\* a transform the caller has set up, and what it has saved
World ==
    [xx |-> 0, xy |-> 1, yx |-> -1, yy |-> 0, tx |-> Real(5), ty |-> Real(-7)]

WorldSaved ==
    [transform |-> Identity, lineWidth |-> Real(3), isStroke |-> FALSE,
     isFill |-> TRUE]

\* position and rotation (quarter turns) a text is drawn at, with the
\* transform and the transform stack of the caller
Placements ==
    { [pos |-> <<0, 0>>, rot |-> 0, transform |-> Identity, stack |-> << >>],
      [pos |-> <<Real(3), Real(-2)>>, rot |-> 1, transform |-> Identity,
       stack |-> << >>],
      [pos |-> <<Real(-1), Real(4)>>, rot |-> 3, transform |-> World,
       stack |-> << WorldSaved >>] }

GlyphSizes == { <<Real(10), Real(10)>>, <<Real(6), Real(7)>> }

LineWidths == { Real(1), Real(2) }

HJustify == {"LEFT", "CENTER", "RIGHT"}

\* the arguments ComputeStringBoundaryLimits is called with from outside
LimitsArgs ==
    { [aGlyphSize |-> <<Real(10), Real(10)>>, aGlyphThickness |-> Real(1),
       aTopLimit |-> TRUE, aBottomLimit |-> TRUE],
      [aGlyphSize |-> <<Real(6), Real(7)>>, aGlyphThickness |-> Real(2),
       aTopLimit |-> FALSE, aBottomLimit |-> FALSE] }

VJustify == {"TOP", "CENTER", "BOTTOM"}

\* the text attributes the drawing context is set to
TextAttributes ==
    [glyphSize : GlyphSizes, lineWidth : LineWidths, hJustify : HJustify,
     vJustify : VJustify, bold : BOOLEAN, italic : BOOLEAN, mirrored : BOOLEAN]

\* the layers an item is drawn for
Layers ==
    {"COPPER", "VIAS_VISIBLE", "VIA_HOLES_VISIBLE", "PADS_VISIBLE",
     "PAD_HOLES_VISIBLE", "NETNAME_VISIBLE"}

\* the render settings: every choice of outline or filled mode
Settings ==
    [m_sketchModeSelect : [TRACKS_VISIBLE : BOOLEAN, VIAS_VISIBLE : BOOLEAN,
                           PADS_VISIBLE : BOOLEAN],
     m_outlineWidth : {Real(1)}]

\* texts of board items: empty, "A", "A~", "~A\nB~"
PaintTexts == { << >>, <<65>>, <<65, 126>>, <<126, 65, 10, 66, 126>> }

PaintAttributes ==
    { [glyphSize |-> <<Real(10), Real(10)>>, hJustify |-> "LEFT",
       vJustify |-> "BOTTOM", bold |-> FALSE, italic |-> FALSE,
       mirrored |-> FALSE],
      [glyphSize |-> <<Real(6), Real(7)>>, hJustify |-> "CENTER",
       vJustify |-> "CENTER", bold |-> TRUE, italic |-> TRUE,
       mirrored |-> FALSE],
      [glyphSize |-> <<Real(6), Real(7)>>, hJustify |-> "RIGHT",
       vJustify |-> "TOP", bold |-> FALSE, italic |-> TRUE,
       mirrored |-> TRUE] }

Tracks ==
    { [type |-> "PCB_TRACE_T", start |-> <<0, 0>>, endp |-> <<10, 0>>,
       width |-> 3],
      [type |-> "PCB_TRACE_T", start |-> <<2, 5>>, endp |-> <<2, -4>>,
       width |-> 4],
      [type |-> "PCB_ZONE_T", start |-> <<1, 1>>, endp |-> <<-6, 1>>,
       width |-> 2] }

Vias == { [type |-> "PCB_VIA_T", start |-> <<3, 3>>, width |-> 8, drill |-> 4] }

PadShapes ==
    {"PAD_OVAL", "PAD_RECT", "PAD_TRAPEZOID", "PAD_CIRCLE", "PAD_OCTAGON",
     "PAD_NONE"}

Pads ==
    { [type |-> "PCB_PAD_T", position |-> <<4, -3>>,
       orientation |-> IF sz[1] < sz[2] THEN 3 ELSE 0,
       size |-> sz, offset |-> <<1, 0>>, shape |-> sh,
       drillSize |-> << sz[2] \div 4, sz[1] \div 4 >>,
       drillShape |-> IF n = << >> THEN "PAD_CIRCLE" ELSE "PAD_OVAL",
       netname |-> n, padname |-> <<66, 126>>] :
      sz \in { <<24, 16>>, <<16, 24>> }, sh \in PadShapes,
      n \in { << >>, <<65, 126>> } }

SegmentShapes ==
    {"S_SEGMENT", "S_RECT", "S_ARC", "S_CIRCLE", "S_POLYGON", "S_CURVE",
     "S_LAST"}

Segments ==
    { [type |-> IF sh = "S_ARC" THEN "PCB_MODULE_EDGE_T" ELSE "PCB_LINE_T",
       shape |-> sh, start |-> <<0, 1>>, endp |-> <<5, 1>>, radius |-> 2,
       poly |-> << <<1, 2>>, <<3, 4>>, <<5, 0>> >>, width |-> 1] :
      sh \in SegmentShapes }

TextItems ==
    { [type |-> ty, text |-> t, position |-> <<2, -1>>,
       orientation |-> IF a.mirrored THEN 1 ELSE 0, thickness |-> 1,
       attr |-> a] :
      ty \in {"PCB_TEXT_T", "PCB_MODULE_TEXT_T"}, t \in PaintTexts,
      a \in PaintAttributes }

Zones ==
    { [type |-> "PCB_ZONE_AREA_T", filled |-> f, bridge |-> 2,
       polys |-> << [p |-> <<0, 0>>, end_contour |-> FALSE],
                    [p |-> <<4, 0>>, end_contour |-> FALSE],
                    [p |-> <<4, 4>>, end_contour |-> TRUE],
                    [p |-> <<1, 1>>, end_contour |-> FALSE],
                    [p |-> <<2, 1>>, end_contour |-> TRUE] >>] :
      f \in BOOLEAN }

Dimensions ==
    { [type |-> "PCB_DIMENSION_T", width |-> 1,
       segs |-> [k \in 1..7 |-> << <<k, 0>>, <<k, k>> >>],
       Text |-> [type |-> "PCB_TEXT_T", text |-> t, position |-> <<0, 3>>,
                 orientation |-> 2, thickness |-> 2,
                 attr |-> CHOOSE a \in PaintAttributes : a.bold]] :
      t \in { <<65>>, <<65, 10, 126>> } }

Targets ==
    { [type |-> "PCB_TARGET_T", shape |-> x, size |-> 7, position |-> <<1, 1>>] :
      x \in BOOLEAN }

\* an item of a type the painter does not draw
Others == { [type |-> "PCB_MODULE_T"] }

PaintItems ==
    Tracks \cup Vias \cup Pads \cup Segments \cup TextItems \cup Zones
        \cup Dimensions \cup Targets \cup Others

----------------------------------------------------------------------------
(* The state machine *)

\* the drawing context after construction
GalInit ==
    [transform |-> Identity, stack |-> << >>,
     lineWidth |-> Real(1), isStroke |-> TRUE, isFill |-> FALSE,
     glyphSize |-> <<Real(10), Real(10)>>,
     hJustify |-> "LEFT", vJustify |-> "BOTTOM",
     bold |-> FALSE, italic |-> FALSE, mirrored |-> FALSE,
     nSave |-> 0, nRestore |-> 0, underflow |-> FALSE,
     calls |-> << >>,
     isGroupStarted |-> FALSE, displayListsGroup |-> << >>]

NoOp == [op |-> "none"]

\* the render settings after construction: every item kind drawn filled
DefaultSettings ==
    [m_sketchModeSelect |-> [TRACKS_VISIBLE |-> FALSE, VIAS_VISIBLE |-> FALSE,
                             PADS_VISIBLE |-> FALSE],
     m_outlineWidth |-> Real(1)]

\* the context as an operation finds it: the primitives and the Save/Restore
\* counts of the operation before are not kept
Fresh(g) == [g EXCEPT !.calls = << >>, !.nSave = 0, !.nRestore = 0]

Init ==
    /\ LET f == LoadNewStrokeFont(newstroke_font(FontSize))
       IN m_glyphs = f.glyphs /\ m_glyphBoundingBoxes = f.boxes
    /\ \E t \in Texts, p \in Placements :
          /\ item = [text |-> t, pos |-> p.pos, rot |-> p.rot]
          /\ \E a \in TextAttributes :
                gal = [GalInit EXCEPT !.transform = p.transform,
                                      !.stack = p.stack,
                                      !.glyphSize = a.glyphSize,
                                      !.lineWidth = a.lineWidth,
                                      !.hJustify = a.hJustify,
                                      !.vJustify = a.vJustify,
                                      !.bold = a.bold,
                                      !.italic = a.italic,
                                      !.mirrored = a.mirrored]
    /\ m_pcbSettings = DefaultSettings
    /\ last = NoOp

\* the state after Draw has returned r
StrokeFontDrawn(r) ==
    /\ gal' = r.g
    /\ last' = [op |-> "Draw", before |-> Saved(gal),
                depth |-> Len(gal.stack), lines |-> r.lines]
    /\ UNCHANGED <<m_glyphs, m_glyphBoundingBoxes, m_pcbSettings, item>>

\* STROKE_FONT::Draw( item.text, item.pos, item.rot )
StrokeFontDraw ==
    StrokeFontDrawn(Draw(m_glyphs, m_glyphBoundingBoxes, Fresh(gal),
                         item.text, item.pos, item.rot))

\* STROKE_FONT::ComputeStringBoundaryLimits( item.text, size, thickness, .. )
BoundaryLimits ==
    /\ SingleLine(item.text)
    /\ \E a \in LimitsArgs :
          last' = [op |-> "ComputeStringBoundaryLimits",
                   args |-> a,
                   ret |-> ComputeStringBoundaryLimits(m_glyphBoundingBoxes, gal,
                               item.text, a.aGlyphSize, a.aGlyphThickness,
                               a.aTopLimit, a.aBottomLimit)]
    /\ gal' = Fresh(gal)
    /\ UNCHANGED <<m_glyphs, m_glyphBoundingBoxes, m_pcbSettings, item>>

Next ==
    \/ StrokeFontDraw
    \/ BoundaryLimits

Spec == Init /\ [][Next]_vars

\* the painter after construction, with the render settings chosen and the
\* board item it is asked to draw
InitPaint ==
    /\ LET f == LoadNewStrokeFont(newstroke_font(FontSize))
       IN m_glyphs = f.glyphs /\ m_glyphBoundingBoxes = f.boxes
    /\ m_pcbSettings \in Settings
    /\ gal = GalInit
    /\ item \in PaintItems
    /\ last = NoOp

\* the state after PCB_PAINTER::Draw( item, aLayer ) has returned r
PcbPainterDrawn(aLayer, r) ==
    /\ gal' = r.g
    /\ last' = [op |-> "PCB_PAINTER::Draw", layer |-> aLayer, ret |-> r.ret,
                before |-> Saved(gal), depth |-> Len(gal.stack)]
    /\ UNCHANGED <<m_glyphs, m_glyphBoundingBoxes, m_pcbSettings, item>>

\* PCB_PAINTER::Draw( item, aLayer )
PcbPainterDraw ==
    \E aLayer \in Layers :
        PcbPainterDrawn(aLayer,
            PCB_PAINTER_Draw(Fresh(gal), m_pcbSettings, item, aLayer))

NextPaint == PcbPainterDraw

SpecPaint == InitPaint /\ [][NextPaint]_vars

----------------------------------------------------------------------------
(* Loading glyph tables other than the built-in one *)

\* the longest glyph string loaded, in coordinate pairs
MaxPairs == 4

\* the coordinate pairs the glyph strings are made of: "JZ", " R" (pen up),
\* "MU", " F" (a point whose first character is a space), "R\", "W[" and
\* "b`" (a point below the baseline; as a first pair, an end before the start)
CoordinatePairs ==
    { <<74, 90>>, <<CH_SPACE, CH_R>>, <<77, 85>>, <<CH_SPACE, 70>>,
      <<CH_R, 92>>, <<87, 91>>, <<98, 96>> }

\* the glyph strings of n pairs
RECURSIVE PairStrings(_)
PairStrings(n) ==
    IF n = 0 THEN { << >> }
    ELSE { p \o s : p \in CoordinatePairs, s \in PairStrings(n - 1) }

GlyphStrings == UNION { PairStrings(n) : n \in 1..MaxPairs }

\* the tables loaded: one glyph, or the glyph of 'A' and one more
GlyphTables ==
    { << s >> : s \in GlyphStrings } \cup { << GLYPH_A, s >> : s \in GlyphStrings }

\* the font after construction (no glyph yet), and the table it is given
InitLoad ==
    /\ m_glyphs = << >>
    /\ m_glyphBoundingBoxes = << >>
    /\ m_pcbSettings = DefaultSettings
    /\ gal = GalInit
    /\ \E t \in GlyphTables : item = [table |-> t]
    /\ last = NoOp

\* the state after LoadNewStrokeFont has built the tables f
FontLoaded(f) ==
    /\ m_glyphs' = f.glyphs
    /\ m_glyphBoundingBoxes' = f.boxes
    /\ last' = [op |-> "LoadNewStrokeFont", ret |-> TRUE]
    /\ UNCHANGED <<m_pcbSettings, gal, item>>

\* STROKE_FONT::LoadNewStrokeFont( item.table, size of item.table )
LoadFont == FontLoaded(LoadNewStrokeFont(item.table))

NextLoad == LoadFont

SpecLoad == InitLoad /\ [][NextLoad]_vars

----------------------------------------------------------------------------
(* The retained groups on their own: groups are created, recorded, replayed
   and deleted in any order *)

\* the most primitives recorded in one group
MaxRecorded == 2

\* the handles the backend generates
GroupNames == {1, 2, 3}

\* the transform the groups are recorded and replayed at
GroupFrames == { Identity, [Identity EXCEPT !.tx = Real(2)] }

\* the primitives issued: a line and a circle
GroupPrimitives ==
    { [op |-> "DrawLine", pts |-> << <<0, 0>>, <<Real(1), 0>> >>, arg |-> 0],
      [op |-> "DrawCircle", pts |-> << <<0, 0>> >>, arg |-> Real(1)] }

\* the drawing context after construction: no group exists
InitGroups ==
    /\ m_glyphs = << >>
    /\ m_glyphBoundingBoxes = << >>
    /\ m_pcbSettings = DefaultSettings
    /\ \E t \in GroupFrames : gal = [GalInit EXCEPT !.transform = t]
    /\ item = << >>
    /\ last = NoOp

\* the state after an operation on the groups: g is the drawing context it
\* leaves, r what is recorded of it
GroupsDone(g, r) ==
    /\ gal' = g
    /\ last' = r
    /\ UNCHANGED <<m_glyphs, m_glyphBoundingBoxes, m_pcbSettings, item>>

\* BeginGroup(), outside a recording; the backend generates a handle that no
\* existing group has
GalBeginGroup ==
    /\ ~gal.isGroupStarted
    /\ \E h \in GroupNames \ LiveGroups(gal) :
          GroupsDone(BeginGroup(Fresh(gal), h),
                     [op |-> "BeginGroup", h |-> h,
                      before |-> gal.displayListsGroup])

\* EndGroup(), in a recording
GalEndGroup ==
    /\ gal.isGroupStarted
    /\ GroupsDone(EndGroup(Fresh(gal)),
                  [op |-> "EndGroup", h |-> 0, before |-> gal.displayListsGroup])

\* the primitive p issued through DrawLine or DrawCircle
IssuePrimitive(g, p) ==
    IF p.op = "DrawLine" THEN DrawLine(g, p.pts[1], p.pts[2])
    ELSE DrawCircle(g, p.pts[1], p.arg)

\* a drawing primitive, in a recording or outside
GalPrimitive ==
    \E p \in GroupPrimitives :
        /\ gal.isGroupStarted =>
              Len(gal.displayListsGroup[Len(gal.displayListsGroup)].list) < MaxRecorded
        /\ GroupsDone(IssuePrimitive(Fresh(gal), p),
                      [op |-> "Primitive", h |-> 0, p |-> p,
                       recording |-> gal.isGroupStarted,
                       before |-> gal.displayListsGroup])

\* DrawGroup( h ), outside a recording, for any handle
GalDrawGroup ==
    /\ ~gal.isGroupStarted
    /\ \E h \in GroupNames :
          GroupsDone(DrawGroup(Fresh(gal), h),
                     [op |-> "DrawGroup", h |-> h,
                      before |-> gal.displayListsGroup])

\* DeleteGroup( h ), outside a recording, for any handle
GalDeleteGroup ==
    /\ ~gal.isGroupStarted
    /\ \E h \in GroupNames :
          GroupsDone(DeleteGroup(Fresh(gal), h),
                     [op |-> "DeleteGroup", h |-> h,
                      again |-> last.op = "DeleteGroup" /\ last.h = h,
                      before |-> gal.displayListsGroup])

NextGroups ==
    \/ GalBeginGroup
    \/ GalEndGroup
    \/ GalPrimitive
    \/ GalDrawGroup
    \/ GalDeleteGroup

SpecGroups == InitGroups /\ [][NextGroups]_vars

----------------------------------------------------------------------------
(* Items and the groups they cache: the operations of the drawing context on
   groups and the operations of VIEW_ITEM on the stored ids, in any order and
   with any arguments *)

\* the items
ViewItems == {1, 2}

\* the layers an item caches a group for: the first item is drawn on two
\* layers, the others on one
CacheLayers(i) == IF i = 1 THEN {0, 1} ELSE {0}

\* the views an item is assigned to
Views == {"view"}

\* two items after construction, and a drawing context without groups
InitCache ==
    /\ m_glyphs = << >>
    /\ m_glyphBoundingBoxes = << >>
    /\ m_pcbSettings = DefaultSettings
    /\ gal = GalInit
    /\ item = [i \in ViewItems |-> VIEW_ITEM]
    /\ last = NoOp

\* the state after an operation on the item i: r.g is the drawing context and
\* r.it the item it leaves, rec what is recorded of it
ItemDone(i, r, rec) ==
    /\ gal' = r.g
    /\ item' = [item EXCEPT ![i] = r.it]
    /\ last' = rec
    /\ UNCHANGED <<m_glyphs, m_glyphBoundingBoxes, m_pcbSettings>>

\* item i: setGroup( aLayer, aGroup ), with any id
ItemSetGroup ==
    \E i \in ViewItems, aGroup \in GroupNames :
        \E aLayer \in CacheLayers(i) :
            ItemDone(i, [g |-> Fresh(gal), it |-> setGroup(item[i], aLayer, aGroup)],
                     [op |-> "setGroup", i |-> i, layer |-> aLayer, h |-> aGroup,
                      had |-> getGroup(item[i], aLayer)])

\* item i: deleteGroups()
ItemDeleteGroups ==
    \E i \in ViewItems :
        ItemDone(i, [g |-> Fresh(gal), it |-> deleteGroups(item[i])],
                 [op |-> "deleteGroups", i |-> i, h |-> 0,
                  again |-> last.op = "deleteGroups" /\ last.i = i])

\* item i: viewAssign( aView ), outside a recording
ItemViewAssign ==
    /\ ~gal.isGroupStarted
    /\ \E i \in ViewItems, aView \in Views, aReleases \in BOOLEAN :
          ItemDone(i, viewAssign(Fresh(gal), item[i], aView, aReleases),
                   [op |-> "viewAssign", i |-> i, h |-> 0,
                    had |-> storedIds(item[i]),
                    released |-> aReleases /\ item[i].m_view # NULL])

\* the cache of item i is invalidated, outside a recording
ItemClearCache ==
    /\ ~gal.isGroupStarted
    /\ \E i \in ViewItems :
          ItemDone(i, clearItemCache(Fresh(gal), item[i]),
                   [op |-> "clearItemCache", i |-> i, h |-> 0,
                    had |-> storedIds(item[i])])

NextCache ==
    \/ GalBeginGroup
    \/ GalEndGroup
    \/ GalDrawGroup
    \/ GalDeleteGroup
    \/ ItemSetGroup
    \/ ItemDeleteGroups
    \/ ItemViewAssign
    \/ ItemClearCache

SpecCache == InitCache /\ [][NextCache]_vars

----------------------------------------------------------------------------
(* The cursor on its own: DrawCursor at one position after another, over a
   scene that does not change.  item holds the scene as it is without the
   cursor. *)

\* the positions at which the square of the cursor lies inside the frame
CursorPositions ==
    { p \in FramePixels : CursorSquare(p) \subseteq FramePixels }

\* the scenes: plain, stripes, squares, and one pixel set
Scenes ==
    { [p \in FramePixels |-> 0], [p \in FramePixels |-> 1],
      [p \in FramePixels |-> p[1] % 2], [p \in FramePixels |-> p[2] % 2],
      [p \in FramePixels |-> (p[1] + p[2]) % 2],
      [p \in FramePixels |-> IF p = <<1, 1>> THEN 1 ELSE 0] }

\* the drawing context after initCursor, showing the scene: nothing saved
InitCursor ==
    /\ m_glyphs = << >>
    /\ m_glyphBoundingBoxes = << >>
    /\ m_pcbSettings = DefaultSettings
    /\ \E scene \in Scenes :
          /\ item = [scene |-> scene]
          /\ gal = [frameBuffer |-> scene,
                    cursorSave |-> [d \in CursorOffsets |-> 0],
                    isDeleteSavedPixels |-> FALSE,
                    savedCursorPosition |-> <<0, 0>>,
                    calls |-> << >>, nSave |-> 0, nRestore |-> 0]
    /\ last = NoOp

\* DrawCursor( aCursorPosition )
GalDrawCursor ==
    \E aCursorPosition \in CursorPositions :
        /\ gal' = DrawCursor(Fresh(gal), aCursorPosition)
        /\ last' = [op |-> "DrawCursor", pos |-> aCursorPosition,
                    first |-> last.op = "none",
                    previous |-> IF last.op = "none" THEN aCursorPosition ELSE last.pos]
        /\ UNCHANGED <<m_glyphs, m_glyphBoundingBoxes, m_pcbSettings, item>>

NextCursor == GalDrawCursor

SpecCursor == InitCursor /\ [][NextCursor]_vars

----------------------------------------------------------------------------
(* Glyph tables as they come: empty tables, empty strings, strings without
   strokes, strings of odd length.  A table is loaded over whatever was loaded
   before, and the glyph of a character is then looked up. *)

\* "", "JZ" (a width only), "JZ R" and " R R" (pen raises only), 'A',
\* "JZMUW[" and strings of odd length: "J" and "JZM" with no memory after the
\* NUL, and with the bytes NUL / 'W' '[' NUL / 'W' after it
AnyStrings ==
    { << >>, << 74, 90 >>, << 74, 90, 32, 82 >>, << 32, 82, 32, 82 >>, GLYPH_A,
      << 74, 90, 77, 85, 87, 91 >>,
      << 74 >>, << 74, 0, 0 >>, << 74, 90, 77 >>, << 74, 90, 77, 0, 0 >>,
      << 74, 90, 77, 0, 87, 91, 0 >>, << 74, 90, 77, 0, 87 >> }

\* the tables: none, one or two glyph strings
AnyTables ==
    { << >> } \cup { << s >> : s \in AnyStrings }
              \cup { << s1, s2 >> : s1 \in AnyStrings, s2 \in AnyStrings }

\* the characters looked up: line break, ' ', '!' and 'A'
LookupChars == { CH_NEWLINE, CH_SPACE, 33, 65 }

\* the font after construction
InitTables ==
    /\ m_glyphs = << >>
    /\ m_glyphBoundingBoxes = << >>
    /\ m_pcbSettings = DefaultSettings
    /\ gal = GalInit
    /\ item = << >>
    /\ last = NoOp

\* a read of memory that is not there has ended the program
Faulted == last.op = "LoadNewStrokeFont" /\ last.fault

\* the state after LoadNewStrokeFont( t, size of t ) has built f: the tables,
\* whether it has returned true, and for each string the highest index read
TableLoaded(t, f) ==
    /\ m_glyphs' = f.glyphs
    /\ m_glyphBoundingBoxes' = f.boxes
    /\ last' = [op |-> "LoadNewStrokeFont", table |-> t, ret |-> ~f.fault,
                fault |-> f.fault, read |-> f.read]
    /\ UNCHANGED <<m_pcbSettings, gal, item>>

\* STROKE_FONT::LoadNewStrokeFont( t, size of t ), for any table
LoadTable ==
    /\ ~Faulted
    /\ \E t \in AnyTables : TableLoaded(t, LoadNewStrokeFont(t))

\* the state after the index dd has been computed for the character ch
IndexComputed(op, ch, dd) ==
    /\ last' = [op |-> op, ch |-> ch, dd |-> dd, fault |-> FALSE]
    /\ UNCHANGED <<m_glyphs, m_glyphBoundingBoxes, m_pcbSettings, gal, item>>

\* drawSingleLineText of the text of one character, up to m_glyphs[dd]
DrawGlyphFetch ==
    /\ ~Faulted
    /\ \E ch \in LookupChars :
          IndexComputed("drawSingleLineText", ch,
                        drawGlyphIndex(ch, Len(m_glyphBoundingBoxes)))

\* ComputeStringBoundaryLimits of the text of one character, up to
\* m_glyphBoundingBoxes[dd]
LimitsBoxFetch ==
    /\ ~Faulted
    /\ \E ch \in LookupChars :
          IndexComputed("ComputeStringBoundaryLimits", ch,
                        limitsGlyphIndex(ch, Len(m_glyphBoundingBoxes)))

NextTables ==
    \/ LoadTable
    \/ DrawGlyphFetch
    \/ LimitsBoxFetch

SpecTables == InitTables /\ [][NextTables]_vars

----------------------------------------------------------------------------
(* The painter with the colour settings: contrast mode and net highlighting
   on or off.  item holds the board item, its board layer and its net. *)

\* the render settings with every choice of contrast mode, active layer and
\* highlighting; net 1 is the net highlighted
ColourSettings ==
    { [m_sketchModeSelect |-> DefaultSettings.m_sketchModeSelect,
       m_outlineWidth |-> DefaultSettings.m_outlineWidth,
       m_hiContrastEnabled |-> c, m_activeLayer |-> a,
       m_highlightEnabled |-> h, m_highlightNetcode |-> 1] :
      c \in BOOLEAN, h \in BOOLEAN, a \in {0, ITEM_GAL_LAYER("VIAS_VISIBLE")} }

\* a track, a via, a pad with a net name and one without
ColourItems ==
    Vias \cup { t \in Tracks : t.type = "PCB_TRACE_T" /\ t.width = 3 }
         \cup { p \in Pads : p.shape = "PAD_CIRCLE" /\ p.size = <<24, 16>> }

InitColour ==
    /\ LET f == LoadNewStrokeFont(newstroke_font(FontSize))
       IN m_glyphs = f.glyphs /\ m_glyphBoundingBoxes = f.boxes
    /\ m_pcbSettings \in ColourSettings
    /\ gal = GalInit
    /\ \E b \in ColourItems, n \in {0, 1}, l \in {0, 15} :
          item = [board |-> b, net |-> n, layer |-> l]
    /\ last = NoOp

\* the state after PCB_PAINTER::Draw( item.board, aLayer ) has returned r,
\* having read the colours reads
ColourDrawn(aLayer, r, reads) ==
    /\ gal' = r.g
    /\ last' = [op |-> "PCB_PAINTER::Draw", layer |-> aLayer, ret |-> r.ret,
                reads |-> reads]
    /\ UNCHANGED <<m_glyphs, m_glyphBoundingBoxes, m_pcbSettings, item>>

\* PCB_PAINTER::Draw( item.board, aLayer )
ColourDraw ==
    \E aLayer \in Layers :
        ColourDrawn(aLayer,
            PCB_PAINTER_Draw(Fresh(gal), m_pcbSettings, item.board, aLayer),
            colourReads(m_pcbSettings, item.board, item.layer, item.net, aLayer))

NextColour == ColourDraw

SpecColour == InitColour /\ [][NextColour]_vars

----------------------------------------------------------------------------
(* The font size of a pad's description, over pads of every scale.  item
   holds the pad's size and its net name; sizes are counted in parts of a
   board unit small enough for a half of three quarters to be whole. *)

\* the parts one board unit is divided in
FontParts == 24

\* pad sides: small ones, and ones whose half is about MAX_FONT_SIZE
PadExtents == {2, 7, 1500000, 2250002, 2800000, 3000000, 3000001, 4000000}

InitPadFont ==
    /\ m_glyphs = << >> /\ m_glyphBoundingBoxes = << >>
    /\ m_pcbSettings = DefaultSettings
    /\ gal = GalInit
    /\ \E w \in PadExtents, h \in PadExtents, n \in { << >>, <<65, 126>> } :
          item = [size |-> <<w, h>>, netname |-> n]
    /\ last = NoOp

\* the state after SetGlyphSize( size ) in the description layer of a pad
GlyphSizeSet(f) ==
    /\ last' = [op |-> "SetGlyphSize", turn |-> f.turn,
                size |-> padGlyphSize(f.size, item.netname)]
    /\ UNCHANGED <<m_glyphs, m_glyphBoundingBoxes, m_pcbSettings, gal, item>>

\* PCB_PAINTER::draw( aPad, ITEM_GAL_LAYER( NETNAME_VISIBLE ) ), up to the
\* glyph size
PadFontSize == GlyphSizeSet(padFontSizeIn(item.size, FontParts))

NextPadFont == PadFontSize

SpecPadFont == InitPadFont /\ [][NextPadFont]_vars

----------------------------------------------------------------------------
(* What the claims are stated over *)

\* the lines drawn by the Draw performed last
Lines == IF last.op = "Draw" THEN last.lines ELSE << >>

LineSet == {Lines[n] : n \in 1..Len(Lines)}

\* the primitives a line issued
LineCalls(l) == SubSeq(gal.calls, l.first, l.next - 1)

Ops(calls) == [k \in 1..Len(calls) |-> calls[k].op]

\* the drawing context as drawSingleLineText found it for the line
EntryGal(l) ==
    [Fresh(gal) EXCEPT !.transform = l.at, !.lineWidth = l.lineWidth,
                       !.isStroke = TRUE]

\* drawSingleLineText run on the text t in the context g
LineRun(g, t) == drawSingleLineText(m_glyphs, m_glyphBoundingBoxes, g, t)

\* the table index the specification asks for: the character's own when the
\* table has it, the one of '?' otherwise
SpecIndex(ch) ==
    IF ch - CH_SPACE >= 0 /\ ch - CH_SPACE < Len(m_glyphs)
    THEN ch - CH_SPACE
    ELSE CH_QUESTION - CH_SPACE

\* the number of DrawPolyline calls that draw the glyphs with these indices
RECURSIVE StrokeCount(_)
StrokeCount(dds) ==
    IF dds = << >> THEN 0
    ELSE Len(m_glyphs[dds[1] + 1]) + StrokeCount(Tail(dds))

CountOp(calls, op) == Cardinality({k \in 1..Len(calls) : calls[k].op = op})

\* C1: every character whose index (c - ' ') is negative or not below the
\* number of glyphs is drawn, and measured, with the entry of '?'; every other
\* character with its own entry.
C1_GlyphFallback ==
    /\ \A l \in LineSet :
          /\ \A k \in 1..Len(l.drawn) : l.drawn[k].dd = SpecIndex(l.drawn[k].ch)
          /\ CountOp(LineCalls(l), "DrawPolyline") =
                StrokeCount([k \in 1..Len(l.drawn) |-> SpecIndex(l.drawn[k].ch)])
    /\ last.op = "ComputeStringBoundaryLimits" =>
          \A k \in 1..Len(last.ret.used) :
              last.ret.used[k].dd = SpecIndex(last.ret.used[k].ch)

OutOfTable(ch) == ch - CH_SPACE < 0 \/ ch - CH_SPACE >= Len(m_glyphs)

C1_Witness ==
    /\ \E l \in LineSet :
          /\ \E k \in 1..Len(l.drawn) : l.drawn[k].ch - CH_SPACE < 0
          /\ \E k \in 1..Len(l.drawn) : ~OutOfTable(l.drawn[k].ch)
          /\ CountOp(LineCalls(l), "DrawPolyline") > 0

\* a line whose text begins with a doubled tilde, and the text after it
StartsDoubled(t) == Len(t) >= 2 /\ t[1] = CH_TILDE /\ t[2] = CH_TILDE

AfterDoubled(t) == SubSeq(t, 3, Len(t))

\* C2 as claimed: a line "~~" \o t issues the primitives of the line t.
C2_Original ==
    \A l \in LineSet :
        StartsDoubled(l.text) =>
            LineCalls(l) = LineRun(EntryGal(l), AfterDoubled(l.text)).g.calls

\* C2 as amended: a doubled tilde never toggles the overbar, but it is drawn:
\* a line "~~" \o t draws the glyph of a literal '~' without overbar, then the
\* glyphs of t with the overbar states and the spacing it gives them in t,
\* all advanced by the width of the '~' glyph; the line is wider by that
\* width, and it issues as many overbar segments as t.
C2_DoubledTildeIsLiteral ==
    \A l \in LineSet :
        StartsDoubled(l.text) =>
            LET d == l.drawn
                r == LineRun(EntryGal(l), AfterDoubled(l.text))
                gs == loopGlyphSize(EntryGal(l))
            IN /\ Len(d) = Len(r.drawn) + 1
               /\ d[1].ch = CH_TILDE /\ d[1].pos = 2 /\ ~d[1].overbar
               /\ \A k \in 1..Len(r.drawn) :
                     /\ d[k + 1].ch = r.drawn[k].ch
                     /\ d[k + 1].overbar = r.drawn[k].overbar
                     /\ d[k + 1].xOffset - d[1].xOffset =
                           advance(gs, m_glyphBoundingBoxes[d[1].dd + 1])
                           + (r.drawn[k].xOffset - r.drawn[1].xOffset)
               /\ l.textSize[1] = r.textSize[1]
                     + Abs(advance(gs, m_glyphBoundingBoxes[d[1].dd + 1]))
               /\ CountOp(LineCalls(l), "DrawLine") = CountOp(r.g.calls, "DrawLine")
               /\ CountOp(LineCalls(l), "DrawPolyline") =
                     Len(m_glyphs[d[1].dd + 1]) + CountOp(r.g.calls, "DrawPolyline")

TextABC == <<65, 66, 67>>

C2_Witness ==
    \E l \in LineSet :
        /\ l.text = <<CH_TILDE, CH_TILDE>> \o TextABC
        /\ Len(l.drawn) = 4
        /\ CountOp(LineCalls(l), "DrawLine") = 0

\* the primitives the glyphs drawn account for: per glyph, an overbar
\* segment if the overbar is on, then one polyline per stroke
RECURSIVE ExpectedOps(_)
ExpectedOps(d) ==
    IF d = << >> THEN << >>
    ELSE (IF d[1].overbar THEN << "DrawLine" >> ELSE << >>)
         \o [n \in 1..Len(m_glyphs[d[1].dd + 1]) |-> "DrawPolyline"]
         \o ExpectedOps(Tail(d))

\* C3: a single '~' before a character other than '~' flips the overbar
\* state, nothing else changes it, and it starts off; a glyph gets an overbar
\* segment exactly when the state is on as it is drawn; "~ABC~" draws A, B, C,
\* each under one overbar segment, and nothing else.
C3_OverbarToggle ==
    \A l \in LineSet :
        LET d == l.drawn
            prevPos(k) == IF k = 1 THEN 0 ELSE d[k - 1].pos
            prevBar(k) == IF k = 1 THEN FALSE ELSE d[k - 1].overbar
        IN /\ \A k \in 1..Len(d) :
                 /\ d[k].pos \in {prevPos(k) + 1, prevPos(k) + 2}
                 /\ d[k].pos = prevPos(k) + 2 => l.text[prevPos(k) + 1] = CH_TILDE
                 /\ d[k].overbar =
                       IF d[k].pos = prevPos(k) + 2 /\ d[k].ch # CH_TILDE
                       THEN ~prevBar(k) ELSE prevBar(k)
           /\ Ops(LineCalls(l)) = ExpectedOps(d)
           /\ l.text = <<CH_TILDE>> \o TextABC \o <<CH_TILDE>> =>
                 /\ [k \in 1..Len(d) |-> d[k].ch] = TextABC
                 /\ \A k \in 1..Len(d) : d[k].overbar
                 /\ CountOp(LineCalls(l), "DrawLine") = 3

C3_Witness ==
    \E l \in LineSet :
        /\ l.text = <<CH_TILDE>> \o TextABC \o <<CH_TILDE>>
        /\ CountOp(LineCalls(l), "DrawLine") = 3
        /\ Len(l.drawn) = 3

\* the pen advances drawSingleLineText added up in xOffset over the line
PenAdvance(l) ==
    IF l.drawn = << >> THEN 0 ELSE l.xOffset - l.drawn[1].xOffset

\* C4 as claimed: the line width is the sum of the pen advances.
C4_Original ==
    \A l \in LineSet : l.textSize[1] = PenAdvance(l)

\* C4 as amended: the line width is the size of the sum of the pen advances,
\* plus the line thickness, plus the glyph height times the italic tilt when
\* the text is italic.
C4_WidthIsAdvancePlusThickness ==
    \A l \in LineSet :
        l.textSize[1] =
            Abs(PenAdvance(l)) + l.lineWidth
            + (IF gal.italic THEN Mul(gal.glyphSize[2], ITALIC_TILT) ELSE 0)

C4_Witness ==
    \E l \in LineSet :
        /\ Len(l.drawn) >= 2
        /\ gal.italic
        /\ PenAdvance(l) > 0
        /\ l.textSize[1] > PenAdvance(l) + l.lineWidth

WithHJustify(g, j) == [g EXCEPT !.hJustify = j]

\* where the pen is, in the frame of the caller, as the first glyph is drawn
FirstOrigin(g, t) == LineRun(g, t).drawn[1].origin

\* C5 as claimed: the first glyph of a right-justified line is where the
\* line puts it when left-justified after a translation by -width.
C5_Original ==
    \A l \in LineSet :
        l.drawn # << >> /\ gal.hJustify = "RIGHT" =>
            FirstOrigin(Translate(WithHJustify(EntryGal(l), "LEFT"),
                                  << -l.textSize[1], 0 >>), l.text)
                = l.drawn[1].origin

\* C5 as amended: that holds for text that is not mirrored; for mirrored
\* text left and right are exchanged: the first glyph of a left-justified
\* line is where the line puts it when right-justified after a translation
\* by -width.
C5_JustifyShift ==
    \A l \in LineSet :
        l.drawn # << >> =>
            /\ gal.hJustify = "RIGHT" /\ ~gal.mirrored =>
                  FirstOrigin(Translate(WithHJustify(EntryGal(l), "LEFT"),
                                        << -l.textSize[1], 0 >>), l.text)
                      = l.drawn[1].origin
            /\ gal.hJustify = "LEFT" /\ gal.mirrored =>
                  FirstOrigin(Translate(WithHJustify(EntryGal(l), "RIGHT"),
                                        << -l.textSize[1], 0 >>), l.text)
                      = l.drawn[1].origin

C5_Witness ==
    \E l \in LineSet :
        /\ Len(l.drawn) >= 2
        /\ gal.hJustify = "RIGHT" /\ ~gal.mirrored
        /\ l.drawn[1].origin # Apply(l.at, <<0, 0>>)

\* the point q of the caller's frame, in the local frame of the transform
Unapply(m, q) ==
    << m.xx * (q[1] - m.tx) + m.yx * (q[2] - m.ty),
       m.xy * (q[1] - m.tx) + m.yy * (q[2] - m.ty) >>

\* q mirrored about the y axis of the local frame of the transform
ReflectAt(m, q) ==
    LET p == Unapply(m, q) IN Apply(m, << -p[1], p[2] >>)

\* the points of the polylines among the calls
GlyphPointSet(calls) ==
    UNION { {calls[k].pts[n] : n \in 1..Len(calls[k].pts)} :
            k \in {j \in 1..Len(calls) : calls[j].op = "DrawPolyline"} }

\* C6: the glyph points of a line, mirrored about the anchor of the line,
\* are the glyph points the line has with the mirroring the other way.
C6_MirrorRoundTrip ==
    \A l \in LineSet :
        { ReflectAt(l.at, q) : q \in GlyphPointSet(LineCalls(l)) }
            = GlyphPointSet(
                  LineRun([EntryGal(l) EXCEPT !.mirrored = ~gal.mirrored],
                          l.text).g.calls)

C6_Witness ==
    \E l \in LineSet :
        /\ gal.mirrored /\ gal.italic /\ gal.hJustify = "CENTER"
        /\ l.text = TextABC
        /\ Cardinality(GlyphPointSet(LineCalls(l))) > 6
        /\ l.lineWidth > 0

TextTildeATilde == <<126, 65, 126>>

\* the two end points of the DrawLine calls among the calls
OverbarEnds(calls) ==
    { {calls[k].pts[1], calls[k].pts[2]} :
      k \in {j \in 1..Len(calls) : calls[j].op = "DrawLine"} }

\* C7: "~A~" drawn with glyph size (10,10) at (0,0), rotation 0, in the plain
\* style: the strokes of 'A' once, and one overbar segment at the height
\* 10 * 1.22 + line width above the baseline, from the pen origin of the
\* glyph to the pen origin plus the glyph's scaled advance.
C7_OverbarSpansAdvance ==
    /\ last.op = "Draw"
    /\ item.text = TextTildeATilde
    /\ item.pos = <<0, 0>> /\ item.rot = 0
    /\ gal.glyphSize = <<Real(10), Real(10)>>
    /\ ~gal.italic /\ ~gal.mirrored
    => /\ Len(Lines) = 1
       /\ LET l == Lines[1]
              d == l.drawn[1]
              h == Mul(Real(10), OVERBAR_POSITION_FACTOR)
                     + (IF gal.bold THEN Mul(gal.lineWidth, BOLD_FACTOR)
                        ELSE gal.lineWidth)
              adv == advance(gal.glyphSize, m_glyphBoundingBoxes[d.dd + 1])
          IN /\ Len(l.drawn) = 1 /\ d.ch = 65
             /\ CountOp(LineCalls(l), "DrawPolyline") = Len(m_glyphs[d.dd + 1])
             /\ CountOp(LineCalls(l), "DrawLine") = 1
             /\ OverbarEnds(LineCalls(l)) =
                   { { << d.origin[1], d.origin[2] - h >>,
                       << d.origin[1] + adv, d.origin[2] - h >> } }

\* the frame the text is laid out in: the caller's, moved to the position
\* and turned by the rotation of the text
TextFrame ==
    Rotate(Translate([gal EXCEPT !.transform = last.before.transform],
                     item.pos), -item.rot).transform

\* where line n starts, in the frame of the text
LineOrigin(n) == Unapply(TextFrame, Apply(Lines[n].at, <<0, 0>>))

\* C8: with vertical-center justification the lines of a text of N lines are
\* exactly one line height apart, and the first is (N-1) * lineHeight / 2
\* above where a single centered line sits.
C8_CenteredBlock ==
    last.op = "Draw" /\ gal.vJustify = "CENTER" /\ Len(Lines) >= 1 =>
        LET lineHeight == Real(getInterline(gal))
            single == Half(gal.glyphSize[2])
        IN /\ \A n \in 1..(Len(Lines) - 1) :
                 LineOrigin(n + 1)[2] - LineOrigin(n)[2] = lineHeight
           /\ 2 * (single - LineOrigin(1)[2]) = (Len(Lines) - 1) * lineHeight

\* C9: after Draw the transform and the depth of the transform stack are
\* what they were before it, for every text, position and rotation.
C9_DrawLeavesTransform ==
    last.op = "Draw" =>
        /\ gal.transform = last.before.transform
        /\ Len(gal.stack) = last.depth
        /\ ~gal.underflow

C9_Witness ==
    /\ last.op = "Draw"
    /\ Len(Lines) >= 2
    /\ item.text[Len(item.text)] = CH_TILDE
    /\ item.pos # <<0, 0>> /\ item.rot # 0
    /\ last.depth = 1
    /\ gal.lineWidth > 0 /\ gal.hJustify = "RIGHT" /\ gal.vJustify = "CENTER"
    /\ gal.nSave >= 3

\* C10: along every path of PCB_PAINTER::Draw, and of the text drawing it
\* calls, every Save is matched by one Restore and Restore never finds the
\* stack empty: after the call there were as many Saves as Restores and the
\* stack is as deep as before.
C10_SaveRestoreBalanced ==
    /\ gal.nSave = gal.nRestore
    /\ ~gal.underflow
    /\ last.op = "PCB_PAINTER::Draw" => Len(gal.stack) = last.depth

C10_Witness ==
    /\ last.op = "PCB_PAINTER::Draw"
    /\ item.type = "PCB_PAD_T"
    /\ last.layer = "NETNAME_VISIBLE"
    /\ item.netname # << >>
    /\ item.netname[Len(item.netname)] = CH_TILDE
    /\ gal.nSave >= 5
    /\ m_pcbSettings.m_sketchModeSelect.PADS_VISIBLE

----------------------------------------------------------------------------
(* C18: the distance between consecutive lines *)

\* the distance from line n to line n + 1, down the frame of the text
LineStep(n) == LineOrigin(n + 1)[2] - LineOrigin(n)[2]

\* glyphHeight * 1.5 + lineThickness for the glyph height and line width the
\* context has when Draw is called, computed exactly
ExactInterline == (3 * gal.glyphSize[2]) \div 2 + last.before.lineWidth

\* C18 as stated: the translation between two consecutive lines is exactly
\* glyphHeight * 1.5 + lineThickness, for every glyph height and thickness.
C18_Original ==
    last.op = "Draw" =>
        \A n \in 1..(Len(Lines) - 1) : LineStep(n) = ExactInterline

\* C18, amended: the translation between two consecutive lines is
\* glyphHeight * 1.5 + lineThickness rounded to the nearest whole number
\* (a half rounds up), for the line width the context has on entry, bold
\* or not.
C18_InterlineRounded ==
    last.op = "Draw" =>
        \A n \in 1..(Len(Lines) - 1) :
            /\ LineStep(n) % Unit = 0
            /\ 2 * (LineStep(n) - ExactInterline) <= Unit
            /\ 2 * (ExactInterline - LineStep(n)) < Unit

C18_Witness ==
    /\ last.op = "Draw"
    /\ Len(Lines) >= 2
    /\ ExactInterline % Unit # 0
    /\ gal.bold
    /\ LineStep(1) # ExactInterline

----------------------------------------------------------------------------
(* C19: what the result of ComputeStringBoundaryLimits depends on *)

\* the call performed last, made again with the same arguments in a drawing
\* context that has glyph size gs and italic flag it
LimitsAgain(gs, it) ==
    ComputeStringBoundaryLimits(m_glyphBoundingBoxes,
        [gal EXCEPT !.glyphSize = gs, !.italic = it], item.text,
        last.args.aGlyphSize, last.args.aGlyphThickness,
        last.args.aTopLimit, last.args.aBottomLimit)

\* C19: two calls of ComputeStringBoundaryLimits with the same text, glyph
\* size and thickness return the same width, height, top limit and bottom
\* limit, whatever glyph size and italic flag the drawing context has.
C19_PureFunction ==
    last.op = "ComputeStringBoundaryLimits" =>
        \A gs \in GlyphSizes, it \in BOOLEAN :
            /\ LimitsAgain(gs, it).result = last.ret.result
            /\ LimitsAgain(gs, it).top = last.ret.top
            /\ LimitsAgain(gs, it).bottom = last.ret.bottom

----------------------------------------------------------------------------
(* C20: the decoding of a glyph string *)

\* the k-th 2-character pair of the glyph string s
PairAt(s, k) == << s[2 * k - 1], s[2 * k] >>

PairCount(s) == Len(s) \div 2

\* n / 21 in the fixed-point scale, for a whole number n
Over21(n) == (n * Unit) \div 21

\* a later pair that is the pen-up marker " R"
IsPenUp(s, k) == PairAt(s, k) = << 32, 82 >>

\* the point a later pair stands for, given the first pair of the string
PairPoint(s, k) ==
    << Over21(PairAt(s, k)[1] - 82) - Over21(PairAt(s, 1)[1] - 82),
       Over21(PairAt(s, k)[2] - 82 - 10) >>

\* where the strokes start: a point pair that is the second pair of the
\* string or follows a pen-up marker
StrokeStarts(s) ==
    { a \in 2..PairCount(s) : ~IsPenUp(s, a) /\ (a = 2 \/ IsPenUp(s, a - 1)) }

\* the last pair of the stroke that starts at pair a
StrokeEnd(s, a) ==
    CHOOSE b \in a..PairCount(s) :
        /\ \A k \in a..b : ~IsPenUp(s, k)
        /\ (b = PairCount(s) \/ IsPenUp(s, b + 1))

\* the place among the strokes of the one that starts at pair a
StrokeRank(s, a) == Cardinality({ b \in StrokeStarts(s) : b <= a })

\* the glyph string s was decoded into glyph, with bounding box box, as C20
\* describes
DecodedAsPairs(s, glyph, box) ==
    /\ Len(glyph) = Cardinality(StrokeStarts(s))
    /\ \A a \in StrokeStarts(s) :
          glyph[StrokeRank(s, a)] =
              [k \in 1..(StrokeEnd(s, a) - a + 1) |-> PairPoint(s, a + k - 1)]
    /\ \A r \in 1..Len(glyph) : glyph[r] # << >>
    /\ box.pos[1] = Min(0, Over21(PairAt(s, 1)[2] - 82) - Over21(PairAt(s, 1)[1] - 82))
    /\ box.end[1] = Max(0, Over21(PairAt(s, 1)[2] - 82) - Over21(PairAt(s, 1)[1] - 82))

\* C20: after LoadNewStrokeFont every glyph string is decoded as
\* 2-character pairs: the first pair gives the advance bounds, a later pair
\* " R" ends the stroke, any other later pair (c0, c1) appends the point
\* ((c0 - 'R')/21 - startX, (c1 - 'R' - 10)/21); the stored glyph is the
\* sequence of the non-empty strokes in order, so no stored stroke is empty.
C20_GlyphDecoding ==
    last.op = "LoadNewStrokeFont" =>
        /\ Len(m_glyphs) = Len(item.table)
        /\ Len(m_glyphBoundingBoxes) = Len(item.table)
        /\ \A j \in 1..Len(item.table) :
              DecodedAsPairs(item.table[j], m_glyphs[j], m_glyphBoundingBoxes[j])

\* a table is loaded in which a glyph string has a pen-up marker right after
\* the first pair and one at its end, and a glyph with two strokes
C20_Witness ==
    /\ last.op = "LoadNewStrokeFont"
    /\ Len(item.table) = 2
    /\ Len(m_glyphs[1]) = 2
    /\ PairCount(item.table[2]) = 4
    /\ IsPenUp(item.table[2], 2)
    /\ IsPenUp(item.table[2], 4)
    /\ PairAt(item.table[2], 3)[1] = 32
    /\ Len(m_glyphs[2]) = 1

----------------------------------------------------------------------------
(* C16: what PCB_PAINTER::Draw returns *)

\* the operation performed last issued no GAL call: no primitive, no Save or
\* Restore, and the transform and attributes are as before
NoGalCall ==
    /\ gal.calls = << >>
    /\ gal.nSave = 0 /\ gal.nRestore = 0
    /\ Saved(gal) = last.before
    /\ Len(gal.stack) = last.depth

\* the item types PCB_PAINTER::Draw has a case for
PainterTypes ==
    {"PCB_ZONE_T", "PCB_TRACE_T", "PCB_VIA_T", "PCB_PAD_T", "PCB_LINE_T",
     "PCB_MODULE_EDGE_T", "PCB_TEXT_T", "PCB_MODULE_TEXT_T", "PCB_ZONE_AREA_T",
     "PCB_DIMENSION_T", "PCB_TARGET_T"}

\* the layers a via is drawn on: its pad and its hole
ViaLayers == {"VIAS_VISIBLE", "VIA_HOLES_VISIBLE"}

\* the via is asked for on a layer it has nothing on
ViaOffLayer == item.type = "PCB_VIA_T" /\ last.layer \notin ViaLayers

\* C16 as stated: PCB_PAINTER::Draw either issues at least one drawing
\* primitive and returns true, or issues no GAL call at all and returns false.
C16_Original ==
    last.op = "PCB_PAINTER::Draw" =>
        \/ last.ret /\ Len(gal.calls) >= 1
        \/ ~last.ret /\ NoGalCall

\* C16, amended: PCB_PAINTER::Draw returns false exactly when the type of the
\* entity is none of those it has a case for, and has then issued no GAL call;
\* for every other type it returns true whatever the layer, also when nothing
\* was drawn: a via on a layer other than its pad and hole layers returns true
\* with no GAL call issued; tracks, dimensions, targets and vias on their own
\* layers issue at least one primitive.
C16_DrawResult ==
    last.op = "PCB_PAINTER::Draw" =>
        /\ last.ret <=> item.type \in PainterTypes
        /\ ~last.ret => NoGalCall
        /\ ViaOffLayer => last.ret /\ NoGalCall
        /\ \/ item.type \in {"PCB_ZONE_T", "PCB_TRACE_T", "PCB_DIMENSION_T",
                             "PCB_TARGET_T"}
           \/ item.type = "PCB_VIA_T" /\ last.layer \in ViaLayers
           => last.ret /\ Len(gal.calls) >= 1

C16_Witness ==
    /\ last.op = "PCB_PAINTER::Draw"
    /\ ViaOffLayer
    /\ last.layer = "COPPER"
    /\ last.ret
    /\ gal.calls = << >>

----------------------------------------------------------------------------
(* C11: a group deleted twice *)

\* the handles of the groups in a list of groups
GroupIds(groups) == { groups[k].id : k \in 1..Len(groups) }

\* the number of group resources the backend holds
GroupCount(g) == Len(g.displayListsGroup)

\* a group created with the handle h, recorded with one primitive and ended
CreatedGroup(g, h) ==
    EndGroup(DrawLine(BeginGroup(g, h), <<0, 0>>, <<Real(1), 0>>))

\* C11: DeleteGroup(h) leaves no group with the handle h and releases one
\* resource if there was one; a DeleteGroup(h) repeated changes no state; and
\* from every state the groups can be in, a group created and then deleted
\* twice leaves the groups, and their number, as they were before it was
\* created.
C11_DoubleDelete ==
    /\ last.op = "DeleteGroup" =>
          /\ last.h \notin LiveGroups(gal)
          /\ GroupCount(gal) =
                 IF last.h \in GroupIds(last.before) THEN Len(last.before) - 1
                 ELSE Len(last.before)
          /\ GroupCount(gal) = Cardinality(LiveGroups(gal))
          /\ last.again => gal.displayListsGroup = last.before
    /\ ~gal.isGroupStarted =>
          \A h \in GroupNames \ LiveGroups(gal) :
              /\ GroupCount(CreatedGroup(gal, h)) = GroupCount(gal) + 1
              /\ DeleteGroup(DeleteGroup(CreatedGroup(gal, h), h), h)
                     = DeleteGroup(CreatedGroup(gal, h), h)
              /\ DeleteGroup(DeleteGroup(CreatedGroup(gal, h), h), h) = gal

\* a group is deleted a second time while another group, created before it
\* and holding two primitives, exists
C11_Witness ==
    /\ last.op = "DeleteGroup"
    /\ last.again
    /\ last.h = 1
    /\ Len(gal.displayListsGroup) = 1
    /\ gal.displayListsGroup[1].id = 2
    /\ Len(gal.displayListsGroup[1].list) = 2

----------------------------------------------------------------------------
(* C15: recording and replaying a group *)

\* the primitive c, as issued, rasterized at the transform of g
RasterizedAt(g, c) ==
    [op |-> c.op,
     pts |-> [k \in 1..Len(c.pts) |-> Apply(g.transform, c.pts[k])],
     arg |-> c.arg]

\* the group being recorded
Recording(groups) == groups[Len(groups)]

\* C15: the handle BeginGroup returns is the handle of no group that exists,
\* and no two groups have the same handle; a primitive issued in a recording
\* is appended to the group being recorded and nothing is rasterized; a
\* primitive issued outside a recording is rasterized and recorded nowhere;
\* DrawGroup(h) rasterizes the primitives recorded in h, all of them and in
\* the order recorded, and leaves the groups as they are, so that it can be
\* repeated.
C15_RecordAndReplay ==
    /\ Cardinality(LiveGroups(gal)) = Len(gal.displayListsGroup)
    /\ last.op = "BeginGroup" =>
          /\ last.h \notin GroupIds(last.before)
          /\ gal.isGroupStarted
          /\ gal.displayListsGroup =
                 Append(last.before, [id |-> last.h, list |-> << >>])
          /\ gal.calls = << >>
    /\ last.op = "Primitive" /\ last.recording =>
          /\ gal.calls = << >>
          /\ Len(gal.displayListsGroup) = Len(last.before)
          /\ \A k \in 1..(Len(last.before) - 1) :
                gal.displayListsGroup[k] = last.before[k]
          /\ Recording(gal.displayListsGroup).id = Recording(last.before).id
          /\ Recording(gal.displayListsGroup).list =
                 Append(Recording(last.before).list, last.p)
    /\ last.op = "Primitive" /\ ~last.recording =>
          /\ gal.calls = << RasterizedAt(gal, last.p) >>
          /\ gal.displayListsGroup = last.before
    /\ last.op = "DrawGroup" /\ last.h \in LiveGroups(gal) =>
          /\ Len(gal.calls) = Len(GroupList(gal, last.h))
          /\ \A k \in 1..Len(gal.calls) :
                gal.calls[k] = RasterizedAt(gal, GroupList(gal, last.h)[k])
          /\ gal.displayListsGroup = last.before

\* a group holding a line and then a circle is replayed, at a transform that
\* is not the identity, while an older group exists
C15_Witness ==
    /\ last.op = "DrawGroup"
    /\ Len(gal.displayListsGroup) = 2
    /\ gal.displayListsGroup[2].id = last.h
    /\ Len(gal.calls) = 2
    /\ gal.calls[1].op = "DrawLine"
    /\ gal.calls[2].op = "DrawCircle"
    /\ gal.calls[1].pts[1] # <<0, 0>>

----------------------------------------------------------------------------
(* C13, C14, C12: the group ids stored in an item *)

\* the item has at most one pair for each layer
OnePerLayer(it) ==
    \A k1, k2 \in 1..it.m_groupsSize :
        it.m_groups[k1][1] = it.m_groups[k2][1] => k1 = k2

\* the operations that remove all stored ids of an item
ClearingOps == {"deleteGroups", "viewAssign", "clearItemCache"}

\* what getGroup( l ) of item i returns after the step, when the latest
\* setGroup( l, id ) since the last removal of the ids decides it
ExpectedGroup(i, l) ==
    IF last'.op \in ClearingOps /\ last'.i = i THEN -1
    ELSE IF last'.op = "setGroup" /\ last'.i = i /\ last'.layer = l THEN last'.h
    ELSE getGroup(item[i], l)

\* C13: an item stores at most one group id for each layer, and getGroup( l )
\* is the id of the latest setGroup( l, id ) since the ids were last removed,
\* and -1 without one, as for a new item
C13_GroupPerLayer ==
    [][ /\ last.op = "none" =>
              \A i \in ViewItems : \A l \in CacheLayers(i) : getGroup(item[i], l) = -1
        /\ \A i \in ViewItems :
              /\ OnePerLayer(item'[i])
              /\ \A l \in CacheLayers(i) :
                    getGroup(item'[i], l) = ExpectedGroup(i, l) ]_vars

\* a setGroup has replaced the id of a layer, while the other layer has one
C13_Witness ==
    /\ last.op = "setGroup"
    /\ last.had \notin {-1, last.h}
    /\ getGroup(item[last.i], last.layer) = last.h
    /\ item[last.i].m_groupsSize = 2

\* the item stores nothing: no id in getAllGroups, -1 for every layer
StoresNothing(i, it) ==
    /\ ~storesGroups(it)
    /\ getAllGroups(it) = << >>
    /\ \A l \in CacheLayers(i) : getGroup(it, l) = -1

\* C14: after deleteGroups the item stores nothing; on an item that stores
\* nothing (a new one, or right after a deleteGroups) it changes no state; and
\* storesGroups() holds exactly when some layer has a group id
C14_DeleteGroupsIdempotent ==
    [][ /\ last'.op = "deleteGroups" => StoresNothing(last'.i, item'[last'.i])
        /\ (last'.op = "deleteGroups" /\ ~storesGroups(item[last'.i])) =>
              (item' = item /\ gal'.displayListsGroup = gal.displayListsGroup)
        /\ \A i \in ViewItems :
              storesGroups(item'[i]) <=>
                  (\E l \in CacheLayers(i) : getGroup(item'[i], l) # -1) ]_vars

\* deleteGroups twice in a row on an item, while the other item has a group
C14_Witness ==
    /\ last.op = "deleteGroups"
    /\ last.again
    /\ StoresNothing(last.i, item[last.i])
    /\ \E i \in ViewItems : storesGroups(item[i])

\* the group ids stored in the items
MappedIds == UNION { storedIds(item[i]) : i \in ViewItems }

\* every stored id is the handle of a group that exists
NoDangling == MappedIds \subseteq LiveGroups(gal)

\* no id is stored twice
Exclusive ==
    \A i1, i2 \in ViewItems :
        \A k1 \in 1..item[i1].m_groupsSize, k2 \in 1..item[i2].m_groupsSize :
            item[i1].m_groups[k1][2] = item[i2].m_groups[k2][2] =>
                (i1 = i2 /\ k1 = k2)

CacheSound == NoDangling /\ Exclusive /\ \A i \in ViewItems : OnePerLayer(item[i])

\* the step is one a careful caller makes: setGroup is given the handle of a
\* group that exists and that is stored nowhere, and DeleteGroup is not
\* called on a stored handle
KeepsContract ==
    /\ last'.op = "setGroup" =>
          (last'.h \in LiveGroups(gal) /\ last'.h \notin MappedIds)
    /\ last'.op = "DeleteGroup" => last'.h \notin MappedIds

----------------------------------------------------------------------------
(* C17: the cursor drawn at one position after another *)

\* what DrawCursor at pos does, in order
CursorSteps(pos) ==
    << [op |-> "SavePixels", pts |-> << pos >>, arg |-> 0],
       [op |-> "DrawPixels", pts |-> << pos >>, arg |-> 0] >>

\* C17: in DrawCursor, the pixels saved at the previous position are restored
\* first (nothing is restored in the first call), then the pixels under the
\* new position are saved, then the cursor is drawn; what is saved is the
\* scene under the new position, and the frame buffer is the scene except for
\* the pixels of the cursor at the latest position
C17_CursorOverlay ==
    last.op = "DrawCursor" =>
        /\ gal.calls =
              IF last.first THEN CursorSteps(last.pos)
              ELSE << [op |-> "RestorePixels", pts |-> << last.previous >>, arg |-> 0] >>
                       \o CursorSteps(last.pos)
        /\ \A d \in CursorOffsets :
              gal.cursorSave[d] = item.scene[CursorPixel(last.pos, d)]
        /\ \A p \in FramePixels :
              gal.frameBuffer[p] =
                  IF p \in CursorPattern(last.pos) THEN CursorColour ELSE item.scene[p]

\* the cursor has moved to a position whose square overlaps the previous one,
\* over a scene that is not plain
C17_Witness ==
    /\ last.op = "DrawCursor"
    /\ ~last.first
    /\ last.previous # last.pos
    /\ CursorPattern(last.previous) \cap CursorSquare(last.pos) # {}
    /\ \E p, q \in CursorSquare(last.pos) : item.scene[p] # item.scene[q]
    /\ gal.frameBuffer # item.scene

----------------------------------------------------------------------------
(* C21, C28, C27: glyph tables of any kind *)

\* C21: LoadNewStrokeFont of a table of N strings returns true and leaves N
\* glyphs and N bounding boxes, whatever the strings are and whatever was
\* loaded before; the two tables always have the same size
C21_LoadNeverFatal ==
    /\ Len(m_glyphs) = Len(m_glyphBoundingBoxes)
    /\ last.op = "LoadNewStrokeFont" =>
          /\ last.ret
          /\ Len(m_glyphs) = Len(last.table)
          /\ Len(m_glyphBoundingBoxes) = Len(last.table)

\* C28: the parsing loop reads no character at an index beyond the NUL that
\* ends the glyph string
C28_NoReadPastNul ==
    last.op = "LoadNewStrokeFont" =>
        \A j \in 1..Len(last.table) : last.read[j] <= strlen(last.table[j])

\* C27: the index computed for a character is an index of the tables loaded
C27_IndexInBounds ==
    last.op \in {"drawSingleLineText", "ComputeStringBoundaryLimits"} =>
        (0 <= last.dd /\ last.dd < Len(m_glyphs)
                      /\ last.dd < Len(m_glyphBoundingBoxes))

----------------------------------------------------------------------------
(* C22: the translation for the horizontal justification *)

\* the translation the claim gives for a line of the computed width w
JustifyTranslation(w) ==
    CASE gal.hJustify = "CENTER" -> -Half(w)
      [] (gal.hJustify = "RIGHT" /\ ~gal.mirrored)
           \/ (gal.hJustify = "LEFT" /\ gal.mirrored) -> -w
      [] OTHER -> 0

\* where the pen is as the first glyph of the line is drawn, in the frame
\* drawSingleLineText was entered in, less the half line width and the pen
\* offset: the translation made for the justification
JustifyMade(l) ==
    << Unapply(l.at, l.drawn[1].origin)[1] - Half(l.lineWidth) - l.drawn[1].xOffset,
       Unapply(l.at, l.drawn[1].origin)[2] >>

\* C22: the justification translates a line of computed width w by -w/2 for
\* center, by -w for right when not mirrored and for left when mirrored, and
\* not at all for left when not mirrored and for right when mirrored
C22_JustifySwapsUnderMirror ==
    \A l \in LineSet :
        l.drawn # << >> => JustifyMade(l) = << JustifyTranslation(l.textSize[1]), 0 >>

\* a mirrored, left-justified line of some width has been drawn
C22_Witness ==
    \E l \in LineSet :
        /\ l.drawn # << >>
        /\ gal.hJustify = "LEFT" /\ gal.mirrored
        /\ l.textSize[1] > 0
        /\ JustifyMade(l) = << -l.textSize[1], 0 >>

----------------------------------------------------------------------------
(* C23: the overbar segments of consecutive glyphs *)

\* the DrawLine calls of a line, in order: its overbar segments
OverbarSegments(l) == SelectSeq(LineCalls(l), LAMBDA c : c.op = "DrawLine")

\* the number of glyphs under the overbar among the first k drawn of the line
BarredUpTo(l, k) == Cardinality({ j \in 1..k : l.drawn[j].overbar })

\* the overbar segment of the k-th glyph drawn of the line
SegmentOf(l, k) == OverbarSegments(l)[BarredUpTo(l, k)]

\* the k-th glyph of the line continues a run of glyphs under the overbar
ContinuesRun(l, k) == k > 1 /\ l.drawn[k - 1].overbar /\ l.drawn[k].overbar

\* how far the segment of the k-th glyph starts from the pen position of the
\* glyph, along the line
SegmentIndent(l, k) ==
    Unapply(l.at, SegmentOf(l, k).pts[1])[1] - Unapply(l.at, l.drawn[k].origin)[1]

\* C23: in a run of glyphs under the overbar each segment starts where the
\* segment of the glyph before ends; the segment of the first glyph of a run,
\* at the start of the line or after a glyph without overbar, starts at the
\* pen position plus the italic compensation
C23_OverbarSegmentsJoin ==
    \A l \in LineSet :
        /\ Len(OverbarSegments(l)) = BarredUpTo(l, Len(l.drawn))
        /\ \A k \in 1..Len(l.drawn) :
              l.drawn[k].overbar =>
                  IF ContinuesRun(l, k)
                  THEN SegmentOf(l, k).pts[1] = SegmentOf(l, k - 1).pts[2]
                  ELSE SegmentIndent(l, k) = overbarItalicComp(EntryGal(l))

\* a line with a run of two glyphs under the overbar, and with a glyph under
\* the overbar after one without
C23_Witness ==
    \E l \in LineSet :
        /\ \E k \in 1..Len(l.drawn) : ContinuesRun(l, k)
        /\ \E k \in 3..Len(l.drawn) :
              l.drawn[k].overbar /\ ~l.drawn[k - 1].overbar /\ l.drawn[k - 2].overbar
        /\ overbarItalicComp(EntryGal(l)) # 0

----------------------------------------------------------------------------
(* C24: where the lines of a text start *)

\* the transform m after a translation by v
Translated(m, v) == Translate([transform |-> m], v).transform

\* C24: the transform a line is entered with is the transform the line before
\* was entered with, translated down by one line height and not sideways
C24_SameHorizontalOrigin ==
    last.op = "Draw" =>
        \A n \in 1..(Len(Lines) - 1) :
            Lines[n + 1].at = Translated(Lines[n].at, << 0, LineStep(n) >>)

----------------------------------------------------------------------------
(* C25: the bounding box of a glyph *)

\* endX - startX of the first pair of the glyph string
AdvanceWidth(s) == Over21(PairAt(s, 1)[2] - 82) - Over21(PairAt(s, 1)[1] - 82)

\* the Y coordinates of the stroke points of the glyph
PointYs(glyph) == { GlyphPoints(glyph)[k][2] : k \in 1..Len(GlyphPoints(glyph)) }

Least(S) == CHOOSE v \in S : \A w \in S : v <= w

Greatest(S) == CHOOSE v \in S : \A w \in S : v >= w

\* C25 as stated: the box of a glyph goes from 0 to the advance width, and,
\* for a glyph with stroke points, from the least to the greatest Y of the
\* points
C25_Original ==
    last.op = "LoadNewStrokeFont" =>
        \A j \in 1..Len(item.table) :
            /\ m_glyphBoundingBoxes[j].pos[1] = 0
            /\ m_glyphBoundingBoxes[j].end[1] = AdvanceWidth(item.table[j])
            /\ PointYs(m_glyphs[j]) # {} =>
                  /\ m_glyphBoundingBoxes[j].pos[2] = Least(PointYs(m_glyphs[j]))
                  /\ m_glyphBoundingBoxes[j].end[2] = Greatest(PointYs(m_glyphs[j]))

\* C25, amended: the box goes from 0 to the advance width when that is not
\* negative (from the advance width to 0 when it is), and from the least to
\* the greatest of 0 and the Y of the stroke points
C25_BoxIncludesBaseline ==
    last.op = "LoadNewStrokeFont" =>
        \A j \in 1..Len(item.table) :
            /\ AdvanceWidth(item.table[j]) >= 0 =>
                  /\ m_glyphBoundingBoxes[j].pos[1] = 0
                  /\ m_glyphBoundingBoxes[j].end[1] = AdvanceWidth(item.table[j])
            /\ AdvanceWidth(item.table[j]) < 0 =>
                  /\ m_glyphBoundingBoxes[j].pos[1] = AdvanceWidth(item.table[j])
                  /\ m_glyphBoundingBoxes[j].end[1] = 0
            /\ m_glyphBoundingBoxes[j].pos[2] = Least(PointYs(m_glyphs[j]) \cup {0})
            /\ m_glyphBoundingBoxes[j].end[2] = Greatest(PointYs(m_glyphs[j]) \cup {0})

\* a table is loaded with a glyph that lies above the baseline, so that its
\* box ends below its lowest point, and a glyph with points on both sides of
\* the baseline
C25_Witness ==
    /\ last.op = "LoadNewStrokeFont"
    /\ Len(item.table) = 2
    /\ PointYs(m_glyphs[1]) # {}
    /\ Greatest(PointYs(m_glyphs[1])) < 0
    /\ m_glyphBoundingBoxes[1].end[2] = 0
    /\ AdvanceWidth(item.table[2]) > 0
    /\ Least(PointYs(m_glyphs[2]) \cup {0}) < 0
    /\ Greatest(PointYs(m_glyphs[2]) \cup {0}) > 0

----------------------------------------------------------------------------
(* C26: where the points of a glyph are drawn *)

\* the DrawPolyline calls of a line, in order: the strokes of its glyphs
StrokeCalls(l) == SelectSeq(LineCalls(l), LAMBDA c : c.op = "DrawPolyline")

\* the number of strokes of the glyphs drawn before the k-th of the line
StrokesBefore(l, k) == StrokeCount([j \in 1..(k - 1) |-> l.drawn[j].dd])

\* the x scale of the loop: the glyph width, negated for mirrored text
LoopScaleX == IF gal.mirrored THEN -gal.glyphSize[1] ELSE gal.glyphSize[1]

\* where the claim puts the glyph point pt for the pen offset xOffset, in the
\* frame of the loop
ClaimedPoint(pt, xOffset) ==
    << Mul(pt[1], LoopScaleX) + xOffset
         + (IF ~gal.italic THEN 0
            ELSE IF gal.mirrored THEN (Mul(pt[2], gal.glyphSize[2]) * (Unit \div 8)) \div Unit
            ELSE -((Mul(pt[2], gal.glyphSize[2]) * (Unit \div 8)) \div Unit)),
       Mul(pt[2], gal.glyphSize[2]) >>

\* the point q of the frame of the loop, given where the pen is for the k-th
\* glyph of the line, as the drawing context is handed it
InLoopFrame(l, k, q) ==
    Apply(Translated(l.at, Unapply(l.at, l.drawn[k].origin)),
          << q[1] - l.drawn[k].xOffset, q[2] >>)

\* C26: every stroke of every glyph drawn is a polyline through the glyph
\* points scaled by the glyph size and moved by the pen offset, sheared by
\* 1/8 of the scaled y when the font is italic, one way for text that is not
\* mirrored and the other way for mirrored text; a point with y = 0 is not
\* sheared
C26_GlyphPointPlacement ==
    \A l \in LineSet :
        /\ Len(StrokeCalls(l)) = StrokesBefore(l, Len(l.drawn) + 1)
        /\ \A k \in 1..Len(l.drawn) :
              \A n \in 1..Len(m_glyphs[l.drawn[k].dd + 1]) :
                  /\ StrokeCalls(l)[StrokesBefore(l, k) + n].pts =
                        [m \in 1..Len(m_glyphs[l.drawn[k].dd + 1][n]) |->
                            InLoopFrame(l, k,
                                ClaimedPoint(m_glyphs[l.drawn[k].dd + 1][n][m],
                                             l.drawn[k].xOffset))]
                  /\ \A m \in 1..Len(m_glyphs[l.drawn[k].dd + 1][n]) :
                        m_glyphs[l.drawn[k].dd + 1][n][m][2] = 0 =>
                            ClaimedPoint(m_glyphs[l.drawn[k].dd + 1][n][m], 0)[1]
                                = Mul(m_glyphs[l.drawn[k].dd + 1][n][m][1], LoopScaleX)

\* a line of mirrored italic text has been drawn, with a stroke whose first
\* point is sheared
C26_Witness ==
    \E l \in LineSet :
        /\ gal.italic /\ gal.mirrored
        /\ Len(l.drawn) >= 2
        /\ StrokeCalls(l) # << >>
        /\ LET pt == m_glyphs[l.drawn[2].dd + 1][1][1]
           IN ClaimedPoint(pt, 0)[1] # Mul(pt[1], LoopScaleX)

----------------------------------------------------------------------------
(* C29: the colour tables and the item layers *)

\* the tables with one colour for each board layer
LayerTables == {"m_layerColors", "m_layerColorsHi", "m_layerColorsDark"}

\* the tables with one colour for each item kind
ItemTables == {"m_itemColors", "m_itemColorsHi", "m_itemColorsDark"}

\* C29: no table of layer colours is read at an index of LAYER_COUNT or more;
\* for an item layer the colour is read from a table of item colours, at the
\* layer number less LAYER_COUNT
C29_ItemLayerColour ==
    last.op = "PCB_PAINTER::Draw" =>
        \A k \in 1..Len(last.reads) :
            /\ last.reads[k].table \in LayerTables =>
                  (0 <= last.reads[k].index /\ last.reads[k].index < LAYER_COUNT)
            /\ (item.board.type \in {"PCB_VIA_T", "PCB_PAD_T"}
                  /\ LayerNumber(last.layer) >= LAYER_COUNT) =>
                  /\ last.reads[k].table \in ItemTables
                  /\ last.reads[k].index = LayerNumber(last.layer) - LAYER_COUNT

----------------------------------------------------------------------------
(* C30: the glyph size of a pad's description *)

\* C30: the glyph size set for the description of a pad is at most
\* MAX_FONT_SIZE in width and in height, and its width is to its height as
\* 3 is to 4
C30_GlyphSizeLimited ==
    last.op = "SetGlyphSize" =>
        /\ last.size[1] <= MAX_FONT_SIZE * FontParts
        /\ last.size[2] <= MAX_FONT_SIZE * FontParts
        /\ 4 * last.size[1] = 3 * last.size[2]

====
